---- MODULE Spec2Model ----
(***************************************************************************)
(* Model of config-parser-ts: the ConfigParser validation and pruning      *)
(* engine (src/src/parser.ts) over the element model (elements.ts).        *)
(*                                                                         *)
(* JSON values are records [t, v]; a string is a sequence of characters,   *)
(* an array a sequence of values, an object a sequence of members [k, v]   *)
(* in property (insertion) order.  An optional number (a bound that may be *)
(* undefined) is <<>> when undefined and <<n>> when set.                   *)
(***************************************************************************)
EXTENDS Integers, Sequences, FiniteSets, TLC

VARIABLES root, options, throwOnFirstError, pruneUnknownElements,
          pruneDollarElements, errors,
          calls, text, before, outcome, trace, parts, document,
          subject, given, answer,
          builder, done

vars == <<root, options, throwOnFirstError, pruneUnknownElements,
          pruneDollarElements, errors,
          calls, text, before, outcome, trace, parts, document,
          subject, given, answer,
          builder, done>>

(***************************************************************************)
(* Bounds.                                                                 *)
(***************************************************************************)
MaxCalls == 2

(***************************************************************************)
(* Generic sequence helpers (Array.prototype.includes / filter).           *)
(***************************************************************************)
includes(s, x) == \E i \in 1..Len(s) : s[i] = x

RECURSIVE filterIn(_, _)
filterIn(s, keep) ==
    IF s = <<>> THEN <<>>
    ELSE IF includes(keep, Head(s)) THEN <<Head(s)>> \o filterIn(Tail(s), keep)
         ELSE filterIn(Tail(s), keep)

RECURSIVE filterNotIn(_, _)
filterNotIn(s, drop) ==
    IF s = <<>> THEN <<>>
    ELSE IF includes(drop, Head(s)) THEN filterNotIn(Tail(s), drop)
         ELSE <<Head(s)>> \o filterNotIn(Tail(s), drop)

(***************************************************************************)
(* JSON values.                                                            *)
(***************************************************************************)
Null == [t |-> "null", v |-> 0]
Num(n) == [t |-> "number", v |-> n]
Str(s) == [t |-> "string", v |-> s]
Bool(b) == [t |-> "boolean", v |-> b]
Arr(s) == [t |-> "array", v |-> s]
Obj(ms) == [t |-> "object", v |-> ms]
M(k, val) == [k |-> k, v |-> val]
NoTree == [t |-> "undefined", v |-> 0]

\* typeof value
TypeOf(x) == IF x.t \in {"null", "array", "object"} THEN "object" ELSE x.t

\* the keys of an object as "for (const field in json)" enumerates them
Fields(json) == [i \in 1..Len(json.v) |-> json.v[i].k]

\* json[f]
Get(json, f) == json.v[CHOOSE i \in 1..Len(json.v) : json.v[i].k = f].v

\* json[f] after the value referenced by json[f] was changed in place
Put(json, f, val) ==
    Obj([i \in 1..Len(json.v) |->
            IF json.v[i].k = f THEN M(f, val) ELSE json.v[i]])

RECURSIVE dropMembers(_, _)
dropMembers(ms, fs) ==
    IF ms = <<>> THEN <<>>
    ELSE IF includes(fs, Head(ms).k) THEN dropMembers(Tail(ms), fs)
         ELSE <<Head(ms)>> \o dropMembers(Tail(ms), fs)

\* fs.forEach(f => delete json[f])
Delete(json, fs) == Obj(dropMembers(json.v, fs))

\* field.startsWith("$")
startsWithDollar(field) == Len(field) > 0 /\ field[1] = "$"

(***************************************************************************)
(* JSON.parse: a text is either undecodable or a document whose objects    *)
(* may repeat a key; the decoder keeps the first position and the last     *)
(* value of a repeated key.                                                *)
(***************************************************************************)
BadText == [ok |-> FALSE, doc |-> NoTree]
Text(doc) == [ok |-> TRUE, doc |-> doc]

RECURSIVE JSONparse(_)
RECURSIVE decodeMembers(_, _)
decodeMembers(ms, acc) ==
    IF ms = <<>> THEN acc
    ELSE LET k == Head(ms).k
             val == JSONparse(Head(ms).v)
         IN IF includes(Fields(acc), k)
            THEN decodeMembers(Tail(ms), Put(acc, k, val))
            ELSE decodeMembers(Tail(ms), Obj(Append(acc.v, M(k, val))))

JSONparse(doc) ==
    IF doc.t = "object" THEN decodeMembers(doc.v, Obj(<<>>))
    ELSE IF doc.t = "array"
         THEN Arr([i \in 1..Len(doc.v) |-> JSONparse(doc.v[i])])
         ELSE doc

\* JSON.stringify of a decoded tree
JSONstringify(tree) == Text(tree)

(***************************************************************************)
(* Element model (elements.ts).  Every element is a record with the same   *)
(* fields; the fields of the other variants keep their initial values.     *)
(***************************************************************************)
ConfigElementType == {"string", "number", "boolean", "array", "object"}

ConfigElement(kind) ==
    [kind |-> kind, name |-> <<>>, isRequired |-> TRUE, canBeNull |-> FALSE,
     children |-> <<>>, elements |-> <<>>, allowNull |-> FALSE,
     orderedElements |-> <<>>, minValue |-> <<>>, maxValue |-> <<>>,
     minLength |-> <<>>, maxLength |-> <<>>, validValues |-> <<>>,
     defaultValue |-> <<>>, validators |-> <<>>]

ObjectElement == ConfigElement("object")
ArrayElement == ConfigElement("array")
BooleanElement == ConfigElement("boolean")
NumberElement == ConfigElement("number")
StringElement == ConfigElement("string")

\* ElementValidator: a validator is the set of the values its validate()
\* returns true for, whatever the element
ElementValidator(accepted) == [accepted |-> accepted]

\* validator.validate(configElement, value)
validate_custom(validator, configElement, value) == value \in validator.accepted

\* ConfigElement.addValidators / getValidators
addValidators(ce, validators) == [ce EXCEPT !.validators = @ \o validators]

getValidators(ce) == ce.validators

\* PrimitiveElement.setDefaultValue
setDefaultValue(ce, defaultValue) == [ce EXCEPT !.defaultValue = <<defaultValue>>]

\* ObjectElement.addChild: children.set(child.getName(), child)
addChild(ce, child) ==
    IF \E i \in 1..Len(ce.children) : ce.children[i].name = child.name
    THEN [ce EXCEPT !.children =
            [i \in 1..Len(ce.children) |->
                IF ce.children[i].name = child.name THEN child
                ELSE ce.children[i]]]
    ELSE [ce EXCEPT !.children = Append(@, child)]

RECURSIVE addChildren(_, _)
addChildren(ce, cs) ==
    IF cs = <<>> THEN ce ELSE addChildren(addChild(ce, Head(cs)), Tail(cs))

getChild(ce, childName) ==
    ce.children[CHOOSE i \in 1..Len(ce.children) :
                    ce.children[i].name = childName]

getChildFieldNames(ce) == [i \in 1..Len(ce.children) |-> ce.children[i].name]

\* faulty variant: the filter on isRequired() is lost
requiredNames_all(cs) == [i \in 1..Len(cs) |-> cs[i].name]

RECURSIVE requiredNames(_)
requiredNames(cs) ==
    IF cs = <<>> THEN <<>>
    ELSE IF Head(cs).isRequired THEN <<Head(cs).name>> \o requiredNames(Tail(cs))
         ELSE requiredNames(Tail(cs))

getRequiredChildren(ce) == requiredNames(ce.children)

\* ArrayElement
allowAnyElement(ce) == Len(ce.elements) = 0 /\ Len(ce.orderedElements) = 0

isValidElementType(ce, elemType) ==
    \E i \in 1..Len(ce.elements) : ce.elements[i].tag = elemType

getElementConfig(ce, elemType) ==
    ce.elements[CHOOSE i \in 1..Len(ce.elements) :
                    ce.elements[i].tag = elemType].ce

\* ce.isCorrectType(element), per variant
isCorrectType(ce, element) ==
    CASE ce.kind = "object" -> TypeOf(element) = "object" /\ element.t # "array"
      [] ce.kind = "array" -> TypeOf(element) = "object" /\ element.t = "array"
      [] ce.kind = "boolean" -> TypeOf(element) = "boolean"
      [] ce.kind = "number" -> TypeOf(element) = "number"
      [] ce.kind = "string" -> TypeOf(element) = "string"

(***************************************************************************)
(* isCorrectType as src/elements.ts has it, one method per class, and the  *)
(* call element.isCorrectType(value) on an element of any class.           *)
(***************************************************************************)
ObjectElement_isCorrectType(element) == TypeOf(element) = "object"

ArrayElement_isCorrectType(element) ==
    TypeOf(element) = "object" /\ element.t = "array"

BooleanElement_isCorrectType(element) == TypeOf(element) = "boolean"

NumberElement_isCorrectType(element) == TypeOf(element) = "number"

StringElement_isCorrectType(element) == TypeOf(element) = "string"

ConfigElement_isCorrectType(ce, element) ==
    CASE ce.kind = "object" -> ObjectElement_isCorrectType(element)
      [] ce.kind = "array" -> ArrayElement_isCorrectType(element)
      [] ce.kind = "boolean" -> BooleanElement_isCorrectType(element)
      [] ce.kind = "number" -> NumberElement_isCorrectType(element)
      [] ce.kind = "string" -> StringElement_isCorrectType(element)

(***************************************************************************)
(* Errors (parser.ts).  detail is the part of the message that tells two   *)
(* errors of one class apart, always a sequence of strings.                *)
(***************************************************************************)
Err(type, detail) == [type |-> type, detail |-> detail]
NoError == Err("none", <<>>)
SyntaxError == Err("SyntaxError", <<>>)
ConfigParseFailureError == Err("ConfigParseFailureError", <<>>)
InvalidRootTypeError(msg) == Err("InvalidRootTypeError", <<msg>>)
InvalidTypeError(actual, expected) == Err("InvalidTypeError", <<actual, expected>>)
InvalidArrayElementTypeError(actual) == Err("InvalidArrayElementTypeError", <<actual>>)
MissingRequiredFieldError(field) == Err("MissingRequiredFieldError", field)
InvalidValueError(msg) == Err("InvalidValueError", <<msg>>)
NullValueError(fieldName) == Err("NullValueError", fieldName)
InvalidArrayContentsError(msg) == Err("InvalidArrayContentsError", <<msg>>)
NullArrayElementError == Err("NullArrayElementError", <<>>)

\* instanceof InvalidValueError (NullValueError extends InvalidValueError)
isInvalidValueError(e) == e.type \in {"InvalidValueError", "NullValueError"}

(***************************************************************************)
(* One validation run.  st is the state the run threads through its        *)
(* steps: the parser's error list, whether an error was thrown (which      *)
(* unwinds the whole run), and two histories: trace has one entry per      *)
(* validateXyz call, in the order the calls start, parts one entry per     *)
(* validateObject call that ran to its end.                                *)
(***************************************************************************)
Run(errs) == [errors |-> errs, thrown |-> FALSE, trace |-> <<>>, parts |-> <<>>]

R(val, st) == [val |-> val, st |-> st]

\* a validateXyz call starts: nerr is the number of errors recorded so far
enter(st, op, val, ce) ==
    [st EXCEPT !.trace = Append(@, [op |-> op, val |-> val, ce |-> ce,
                                     nerr |-> Len(st.errors), nend |-> 0 - 1,
                                     last |-> 0])]

\* the call that made entry idx ends, by return or by a thrown error: nend is
\* the number of errors recorded by then, last the entry of the last call that
\* started before this one ended
leave(st, idx) ==
    [st EXCEPT !.trace[idx].nend = Len(st.errors), !.trace[idx].last = Len(st.trace)]

leaveR(r, idx) == R(r.val, leave(r.st, idx))

\* faulty variant: the error is thrown whatever throwOnFirstError says
addError_throw(st, error) ==
    [st EXCEPT !.errors = Append(@, error), !.thrown = TRUE]

\* this.errors.push(error); if (this.throwOnFirstError) throw error
addError(st, error) ==
    [st EXCEPT !.errors = Append(@, error), !.thrown = throwOnFirstError]

\* JavaScript truthiness of an optional number
truthy(n) == n # <<>> /\ n[1] # 0

checkRange(n, min, max, st) ==
    LET s1 == IF truthy(max) /\ n > max[1]
              THEN addError(st, InvalidValueError("max")) ELSE st
    IN  IF s1.thrown THEN s1
        ELSE IF truthy(min) /\ n < min[1]
             THEN addError(s1, InvalidValueError("min")) ELSE s1

validateBoolean(inputBool, ce, st0) ==
    LET st == enter(st0, "validateBoolean", inputBool, ce)
    IN  leave(
            IF inputBool.t = "null"
            THEN IF ~ce.canBeNull THEN addError(st, NullValueError(ce.name)) ELSE st
            ELSE IF ~isCorrectType(ce, inputBool)
                 THEN addError(st, InvalidTypeError(TypeOf(inputBool), "boolean"))
                 ELSE st,
        Len(st0.trace) + 1)

\* faulty variant: the type check comes before the null check
validateNumber_typeFirst(inputNumber, ce, st0) ==
    LET st == enter(st0, "validateNumber", inputNumber, ce)
    IN  leave(
            IF ~isCorrectType(ce, inputNumber)
            THEN addError(st, InvalidTypeError(TypeOf(inputNumber), "number"))
            ELSE IF inputNumber.t = "null"
                 THEN IF ~ce.canBeNull THEN addError(st, NullValueError(ce.name)) ELSE st
                 ELSE checkRange(inputNumber.v, ce.minValue, ce.maxValue, st),
        Len(st0.trace) + 1)

validateNumber(inputNumber, ce, st0) ==
    LET st == enter(st0, "validateNumber", inputNumber, ce)
    IN  leave(
            IF inputNumber.t = "null"
            THEN IF ~ce.canBeNull THEN addError(st, NullValueError(ce.name)) ELSE st
            ELSE IF ~isCorrectType(ce, inputNumber)
                 THEN addError(st, InvalidTypeError(TypeOf(inputNumber), "number"))
                 ELSE checkRange(inputNumber.v, ce.minValue, ce.maxValue, st),
        Len(st0.trace) + 1)

\* faulty variant: no return after the valid-values error, the length check still runs
validateString_noReturn(inputString, ce, st0) ==
    LET st == enter(st0, "validateString", inputString, ce)
    IN  leave(
            IF inputString.t = "null"
            THEN IF ~ce.canBeNull THEN addError(st, NullValueError(ce.name)) ELSE st
            ELSE IF ~isCorrectType(ce, inputString)
                 THEN addError(st, InvalidTypeError(TypeOf(inputString), "string"))
                 ELSE LET s1 == IF Len(ce.validValues) > 0
                                   /\ ~includes(ce.validValues, inputString.v)
                                THEN addError(st, InvalidValueError("enum")) ELSE st
                      IN  IF s1.thrown THEN s1
                          ELSE checkRange(Len(inputString.v), ce.minLength,
                                          ce.maxLength, s1),
        Len(st0.trace) + 1)

validateString(inputString, ce, st0) ==
    LET st == enter(st0, "validateString", inputString, ce)
    IN  leave(
            IF inputString.t = "null"
            THEN IF ~ce.canBeNull THEN addError(st, NullValueError(ce.name)) ELSE st
            ELSE IF ~isCorrectType(ce, inputString)
                 THEN addError(st, InvalidTypeError(TypeOf(inputString), "string"))
                 ELSE IF Len(ce.validValues) > 0
                         /\ ~includes(ce.validValues, inputString.v)
                      THEN addError(st, InvalidValueError("enum"))
                      ELSE checkRange(Len(inputString.v), ce.minLength,
                                      ce.maxLength, st),
        Len(st0.trace) + 1)

RECURSIVE validateObject(_, _, _)
RECURSIVE validateArray(_, _, _)
RECURSIVE validateUnknownElement(_, _, _)
RECURSIVE validateFields(_, _, _, _)
RECURSIVE validateOrdered(_, _, _, _)
RECURSIVE validateEntries(_, _, _, _)

\* requiredFields.filter(...).forEach(f => addError(MissingRequiredFieldError(f)))
RECURSIVE addMissing(_, _)
addMissing(fs, st) ==
    IF fs = <<>> \/ st.thrown THEN st
    ELSE addMissing(Tail(fs), addError(st, MissingRequiredFieldError(Head(fs))))

\* faulty variant: every key counts as a "$" key
dollarFieldsOf_all(fs) == fs

\* jsonFields.filter(f => f.startsWith("$"))
RECURSIVE dollarFieldsOf(_)
dollarFieldsOf(fs) ==
    IF fs = <<>> THEN <<>>
    ELSE IF startsWithDollar(Head(fs)) THEN <<Head(fs)>> \o dollarFieldsOf(Tail(fs))
         ELSE dollarFieldsOf(Tail(fs))

\* faulty variant: the filter lost its negation
extraFieldsOf_declared(jsonFields, allFields) == filterIn(jsonFields, allFields)

\* jsonFields.filter(f => !allFields.includes(f))
extraFieldsOf(jsonFields, allFields) == filterNotIn(jsonFields, allFields)

\* faulty variant: the extra-field pruning deletes the "$" fields among the extra ones only
pruneExtra_dollarOnly(json, extraFields, st) ==
    IF pruneUnknownElements /\ Len(st.errors) = 0
    THEN Delete(json, dollarFieldsOf(extraFields)) ELSE json

\* if (this.pruneUnknownElements && !this.errors.length) delete the extra fields
pruneExtra(json, extraFields, st) ==
    IF pruneUnknownElements /\ Len(st.errors) = 0
    THEN Delete(json, extraFields) ELSE json

\* faulty variant: meta pruning waits for an error-free run, as unknown-element pruning does
pruneDollar_ifClean(json, dollarFields, st) ==
    IF pruneDollarElements /\ Len(st.errors) = 0
    THEN Delete(json, dollarFields) ELSE json

\* if (this.pruneDollarElements) delete the dollar fields
pruneDollar(json, dollarFields, st) ==
    IF pruneDollarElements THEN Delete(json, dollarFields) ELSE json

\* one step of the forEach over the declared fields: r is the result of
\* validating json[Head(fs)]
fieldDone(json, ce, fs, r) ==
    validateFields(Put(json, Head(fs), r.val), ce, Tail(fs), r.st)

\* jsonFields.filter(f => allFields.includes(f)).forEach(f => validateUnknownElement(json[f], ce.getChild(f)))
validateFields(json, ce, fs, st) ==
    IF fs = <<>> \/ st.thrown THEN R(json, st)
    ELSE fieldDone(json, ce, fs,
             validateUnknownElement(Get(json, Head(fs)), getChild(ce, Head(fs)), st))

\* a validateObject call that ran to its end with the object as pruned
partDone(pruned, st, ce, inputObject) ==
    R(pruned, [st EXCEPT !.parts =
                  Append(@, [ce |-> ce, before |-> inputObject, after |-> pruned,
                             nerr |-> Len(st.errors)])])

\* validateObject after the declared fields were validated with result r
pruneObject(r, ce, inputObject) ==
    IF r.st.thrown THEN r
    ELSE partDone(
             pruneDollar(
                 pruneExtra(r.val,
                            extraFieldsOf(Fields(inputObject), getChildFieldNames(ce)),
                            r.st),
                 dollarFieldsOf(Fields(inputObject)), r.st),
             r.st, ce, inputObject)

\* validateObject from the field partitioning on
partitionObject(inputObject, ce, st) ==
    LET requiredFields == getRequiredChildren(ce)
        allFields == getChildFieldNames(ce)
        jsonFields == Fields(inputObject)
        requiredFieldsFound == filterIn(jsonFields, requiredFields)
    IN  pruneObject(
            validateFields(inputObject, ce, filterIn(jsonFields, allFields),
                addMissing(filterNotIn(requiredFields, requiredFieldsFound), st)),
            ce, inputObject)

validateObject(inputObject, ce, st0) ==
    LET st == enter(st0, "validateObject", inputObject, ce)
    IN  leaveR(
            IF inputObject.t = "null"
            THEN R(inputObject,
                   IF ~ce.canBeNull THEN addError(st, NullValueError(ce.name)) ELSE st)
            ELSE IF ~isCorrectType(ce, inputObject)
            THEN R(inputObject,
                   addError(st, InvalidTypeError(TypeOf(inputObject), "object")))
            ELSE partitionObject(inputObject, ce, st),
            Len(st0.trace) + 1)

\* faulty variant: a value that is not of the element's kind is skipped
validateUnknownElement_skipping(elem, ce, st) ==
    IF elem.t # "null" /\ elem.t # ce.kind THEN R(elem, st)
    ELSE CASE ce.kind = "object" -> validateObject(elem, ce, st)
           [] ce.kind = "array" -> validateArray(elem, ce, st)
           [] ce.kind = "boolean" -> R(elem, validateBoolean(elem, ce, st))
           [] ce.kind = "number" -> R(elem, validateNumber(elem, ce, st))
           [] ce.kind = "string" -> R(elem, validateString(elem, ce, st))
           [] OTHER -> R(elem, st)

validateUnknownElement(elem, ce, st) ==
    CASE ce.kind = "object" -> validateObject(elem, ce, st)
      [] ce.kind = "array" -> validateArray(elem, ce, st)
      [] ce.kind = "boolean" -> R(elem, validateBoolean(elem, ce, st))
      [] ce.kind = "number" -> R(elem, validateNumber(elem, ce, st))
      [] ce.kind = "string" -> R(elem, validateString(elem, ce, st))
      [] OTHER -> R(elem, st)

\* faulty variant: a null entry is an error whatever allowNullElements() says
nullEntry_always(ce, st) == addError(st, NullArrayElementError)

\* an entry of a tuple or of a typed set is null:
\* if (!ce.allowNullElements()) this.addError(new NullArrayElementError())
nullEntry(ce, st) ==
    IF ~ce.allowNull THEN addError(st, NullArrayElementError) ELSE st

\* one step of oe.forEach: r is the result of validating array[i]
orderedDone(array, ce, i, r) ==
    validateOrdered(Arr([array.v EXCEPT ![i] = r.val]), ce, i + 1, r.st)

\* oe.forEach((cce, i) => ...), entries i..oe.length
validateOrdered(array, ce, i, st) ==
    IF i > Len(ce.orderedElements) \/ st.thrown THEN R(array, st)
    ELSE orderedDone(array, ce, i,
            IF array.v[i].t = "null"
            THEN R(array.v[i], nullEntry(ce, st))
            ELSE validateUnknownElement(array.v[i], ce.orderedElements[i], st))

\* faulty variant: typeof alone, an array is tagged "object"
elemTypeOf_typeof(elem) == TypeOf(elem)

\* the tag of an array entry: typeof, with "array" for arrays
elemTypeOf(elem) ==
    IF TypeOf(elem) = "object" /\ elem.t = "array" THEN "array" ELSE TypeOf(elem)

\* one step of array.forEach: r is the result of validating array[i]
entryDone(array, ce, i, r) ==
    validateEntries(Arr([array.v EXCEPT ![i] = r.val]), ce, i + 1, r.st)

\* array.forEach(elem => ...), entries i..array.length
validateEntries(array, ce, i, st) ==
    IF i > Len(array.v) \/ st.thrown THEN R(array, st)
    ELSE entryDone(array, ce, i,
            IF array.v[i].t = "null"
            THEN R(array.v[i], nullEntry(ce, st))
            ELSE IF ~isValidElementType(ce, elemTypeOf(array.v[i]))
            THEN R(array.v[i],
                   addError(st, InvalidArrayElementTypeError(elemTypeOf(array.v[i]))))
            ELSE validateUnknownElement(array.v[i],
                     getElementConfig(ce, elemTypeOf(array.v[i])), st))

\* faulty variant: one error for every null entry
RECURSIVE perNull(_, _, _)
perNull(array, i, st) ==
    IF i > Len(array.v) \/ st.thrown THEN st
    ELSE perNull(array, i + 1,
             IF array.v[i].t = "null" THEN addError(st, NullArrayElementError) ELSE st)

validateAny_perNull(array, ce, st) ==
    IF ~ce.allowNull THEN perNull(array, 1, st) ELSE st

\* the array of an element that allows any entry:
\* if (!ce.allowNullElements() && array.filter(v => v === null).length > 0) addError(...)
validateAny(array, ce, st) ==
    IF ~ce.allowNull /\ \E i \in 1..Len(array.v) : array.v[i].t = "null"
    THEN addError(st, NullArrayElementError) ELSE st

\* faulty variant: only an array that is too short is refused
unequalLengths_shorter(oe, array) == Len(oe) > Len(array.v)

\* oe.length !== array.length
unequalLengths(oe, array) == Len(oe) # Len(array.v)

validateArray(inputArray, ce, st0) ==
    LET st == enter(st0, "validateArray", inputArray, ce)
    IN  leaveR(
            IF inputArray.t = "null"
            THEN R(inputArray,
                   IF ~ce.canBeNull THEN addError(st, NullValueError(ce.name)) ELSE st)
            ELSE IF ~isCorrectType(ce, inputArray)
            THEN R(inputArray,
                   addError(st, InvalidTypeError(TypeOf(inputArray), "array")))
            ELSE IF allowAnyElement(ce)
            THEN R(inputArray, validateAny(inputArray, ce, st))
            ELSE IF Len(ce.orderedElements) > 0
            THEN IF unequalLengths(ce.orderedElements, inputArray)
                 THEN R(inputArray,
                        addError(st, InvalidArrayContentsError("unequal lengths")))
                 ELSE validateOrdered(inputArray, ce, 1, st)
            ELSE validateEntries(inputArray, ce, 1, st),
            Len(st0.trace) + 1)

\* ConfigParser.validate
validate(json, st) ==
    IF ~isCorrectType(root, json)
    THEN R(json, addError(st, InvalidRootTypeError("incorrect type")))
    ELSE IF TypeOf(json) # "object"
    THEN R(json, addError(st, InvalidRootTypeError("object as root type")))
    ELSE IF root.kind = "object" THEN validateObject(json, root, st)
    ELSE IF root.kind = "array"
    THEN IF json.t # "array"
         THEN R(json, addError(st, InvalidRootTypeError("expected array")))
         ELSE validateArray(json, root, st)
    ELSE R(json, addError(st, InvalidRootTypeError("incorrect element type")))

(***************************************************************************)
(* ConfigParser.parse(jsonString) on a parser whose error list is errs:    *)
(* the error list afterwards, what the caller gets (a returned tree or a   *)
(* thrown error), and the histories of the run.                            *)
(***************************************************************************)
Returned(tree) == [kind |-> "return", error |-> NoError, tree |-> tree]
Thrown(error) == [kind |-> "throw", error |-> error, tree |-> NoTree]
NoOutcome == [kind |-> "none", error |-> NoError, tree |-> NoTree]

\* parse after validate(json) ended with result r
validated(r) ==
    [errors |-> r.st.errors,
     outcome |-> IF r.st.thrown THEN Thrown(r.st.errors[Len(r.st.errors)])
                 ELSE IF Len(r.st.errors) # 0 THEN Thrown(ConfigParseFailureError)
                 ELSE Returned(r.val),
     trace |-> r.st.trace, parts |-> r.st.parts, document |-> r.val]

\* faulty variant: the decoder's error is caught, recorded and reported as a
\* validation failure
undecoded_wrapped(errs) ==
    [errors |-> Append(errs, SyntaxError), outcome |-> Thrown(ConfigParseFailureError),
     trace |-> <<>>, parts |-> <<>>, document |-> NoTree]

\* parse when JSON.parse(jsonString) throws: nothing catches the error, and
\* validate is not reached
undecoded(errs) ==
    [errors |-> errs, outcome |-> Thrown(SyntaxError),
     trace |-> <<>>, parts |-> <<>>, document |-> NoTree]

parse(jsonString, errs) ==
    IF ~jsonString.ok
    THEN undecoded(errs)
    ELSE validated(validate(JSONparse(jsonString.doc), Run(errs)))

\* ConfigParser.getErrors
getErrors == errors

(***************************************************************************)
(* Construction of elements.  A call of a method ends with the receiver as *)
(* the call leaves it, the error it threw (NoError when it returned) and   *)
(* the element it returned (NoElement when it returned none).              *)
(***************************************************************************)
NoElement == ConfigElement("none")

Ended(after, thrown, returned) ==
    [after |-> after, thrown |-> thrown, returned |-> returned]

\* the method returned the receiver (return this) or nothing
Done(after) == Ended(after, NoError, NoElement)

\* the method threw before it changed the receiver
Threw(this, error) == Ended(this, error, NoElement)

Error(message) == Err("Error", <<message>>)
TypeError == Err("TypeError", <<>>)
InvalidConfigurationElementError == Err("InvalidConfigurationElementError", <<>>)
BuilderMissingOrInvalidOfTypeError(ofTypeMethod, actualMethod) ==
    Err("BuilderMissingOrInvalidOfTypeError", <<ofTypeMethod, actualMethod>>)
BuilderElementTypeUndeterminedError == Err("BuilderElementTypeUndeterminedError", <<>>)
BuilderElementTypeDeterminedError == Err("BuilderElementTypeDeterminedError", <<>>)
BuilderElementTypeNotPrimitiveError == Err("BuilderElementTypeNotPrimitiveError", <<>>)
BuilderArrayElementTypeError(expectedInstance) ==
    Err("BuilderArrayElementTypeError", <<expectedInstance>>)

\* Map.prototype.set on the typed-set map: a new key goes last
mapSet(elements, tag, ce) ==
    IF \E i \in 1..Len(elements) : elements[i].tag = tag
    THEN [i \in 1..Len(elements) |->
            IF elements[i].tag = tag THEN [tag |-> tag, ce |-> ce]
            ELSE elements[i]]
    ELSE Append(elements, [tag |-> tag, ce |-> ce])

(***************************************************************************)
(* ArrayElement as src/elements.ts has it.                                 *)
(***************************************************************************)
\* TRUE when checkOrderedElementsEmpty() throws
ArrayElement_checkOrderedElementsEmpty(this) == Len(this.orderedElements) > 0

ArrayElement_allowNumberElements(this, ce) ==
    IF ArrayElement_checkOrderedElementsEmpty(this)
    THEN Threw(this, InvalidConfigurationElementError)
    ELSE Done([this EXCEPT !.elements = mapSet(@, "number", ce)])

ArrayElement_allowBooleanElements(this, ce) ==
    Done([this EXCEPT !.elements = mapSet(@, "boolean", ce)])

ArrayElement_allowStringElements(this, ce) ==
    Done([this EXCEPT !.elements = mapSet(@, "string", ce)])

ArrayElement_allowObjectElements(this, ce) ==
    Done([this EXCEPT !.elements = mapSet(@, "object", ce)])

ArrayElement_allowArrayElements(this, ce) ==
    Done([this EXCEPT !.elements = mapSet(@, "array", ce)])

ArrayElement_setOrderedElements(this, orderedElements) ==
    IF Len(this.elements) > 0
    THEN Threw(this, InvalidConfigurationElementError)
    ELSE Done([this EXCEPT !.orderedElements = orderedElements])

(***************************************************************************)
(* ConfigElementBuilder as src/elements.ts has it: the builder stores what *)
(* it is told (an undefined field is <<>>, childElements a list in a       *)
(* one-element sequence once set) and build() creates the element.         *)
(***************************************************************************)
ConfigElementBuilder_new ==
    [type |-> 0, name |-> <<>>, minLength |-> <<>>, maxLength |-> <<>>,
     minValue |-> <<>>, maxValue |-> <<>>, canBeNull |-> FALSE,
     isRequired |-> TRUE, defaultValue |-> <<>>, childElements |-> <<>>]

ConfigElementBuilder_ofTypeObject(this) == Done([this EXCEPT !.type = 1])
ConfigElementBuilder_ofTypeArray(this) == Done([this EXCEPT !.type = 2])
ConfigElementBuilder_ofTypeBoolean(this) == Done([this EXCEPT !.type = 3])
ConfigElementBuilder_ofTypeNumber(this) == Done([this EXCEPT !.type = 4])
ConfigElementBuilder_ofTypeString(this) == Done([this EXCEPT !.type = 5])

ConfigElementBuilder_withMaxLength(this, max) == Done([this EXCEPT !.maxLength = <<max>>])
ConfigElementBuilder_withMinLength(this, min) == Done([this EXCEPT !.minLength = <<min>>])
ConfigElementBuilder_withMaxValue(this, max) == Done([this EXCEPT !.maxValue = <<max>>])
ConfigElementBuilder_withMinValue(this, min) == Done([this EXCEPT !.minValue = <<min>>])
ConfigElementBuilder_canBeNull(this) == Done([this EXCEPT !.canBeNull = TRUE])
ConfigElementBuilder_isOptional(this) == Done([this EXCEPT !.isRequired = FALSE])
ConfigElementBuilder_withDefaultValue(this, value) ==
    Done([this EXCEPT !.defaultValue = <<value>>])
ConfigElementBuilder_withChildElements(this, children) ==
    Done([this EXCEPT !.childElements = <<children>>])
ConfigElementBuilder_withName(this, name) == Done([this EXCEPT !.name = name])

\* if (value) of a string, number or boolean
truthyValue(value) ==
    CASE value.t = "boolean" -> value.v
      [] value.t = "number" -> value.v # 0
      [] value.t = "string" -> value.v # <<>>

ConfigElementBuilder_applyCommonFields(this, ce) ==
    [(IF this.name # <<>> THEN [ce EXCEPT !.name = this.name] ELSE ce)
        EXCEPT !.isRequired = this.isRequired, !.canBeNull = this.canBeNull]

ConfigElementBuilder_applyPrimitiveFields(this, ce) ==
    IF this.defaultValue # <<>> /\ truthyValue(this.defaultValue[1])
    THEN setDefaultValue(ce, this.defaultValue[1])
    ELSE ce

\* ObjectElement.addChildren: children is declared without a value, so the
\* first children.set of addChild throws a TypeError
ObjectElement_addChildren(this, children) ==
    IF children = <<>> THEN Done(this) ELSE Threw(this, TypeError)

ConfigElementBuilder_createObjectElement(this) ==
    LET ce == ConfigElementBuilder_applyCommonFields(this, ObjectElement)
    IN  IF this.childElements = <<>> THEN Ended(this, NoError, ce)
        ELSE LET added == ObjectElement_addChildren(ce, this.childElements[1])
             IN  IF added.thrown # NoError THEN Threw(this, added.thrown)
                 ELSE Ended(this, NoError, added.after)

ConfigElementBuilder_createArrayElement(this) ==
    Ended(this, NoError, ConfigElementBuilder_applyCommonFields(this, ArrayElement))

ConfigElementBuilder_createBooleanElement(this) ==
    Ended(this, NoError,
          ConfigElementBuilder_applyPrimitiveFields(this,
              ConfigElementBuilder_applyCommonFields(this, BooleanElement)))

ConfigElementBuilder_createNumberElement(this) ==
    LET ce == ConfigElementBuilder_applyPrimitiveFields(this,
                  ConfigElementBuilder_applyCommonFields(this, NumberElement))
    IN  Ended(this, NoError,
              [ce EXCEPT !.minValue = IF truthy(this.minValue) THEN this.minValue ELSE @,
                         !.maxValue = IF truthy(this.maxValue) THEN this.maxValue ELSE @])

ConfigElementBuilder_createStringElement(this) ==
    LET ce == ConfigElementBuilder_applyPrimitiveFields(this,
                  ConfigElementBuilder_applyCommonFields(this, StringElement))
    IN  Ended(this, NoError,
              [ce EXCEPT !.minLength = IF truthy(this.minLength) THEN this.minLength ELSE @,
                         !.maxLength = IF truthy(this.maxLength) THEN this.maxLength ELSE @])

ConfigElementBuilder_build(this) ==
    CASE this.type = 1 -> ConfigElementBuilder_createObjectElement(this)
      [] this.type = 2 -> ConfigElementBuilder_createArrayElement(this)
      [] this.type = 3 -> ConfigElementBuilder_createBooleanElement(this)
      [] this.type = 4 -> ConfigElementBuilder_createNumberElement(this)
      [] this.type = 5 -> ConfigElementBuilder_createStringElement(this)
      [] OTHER -> Threw(this, Error("Undetermined or invalid element type"))

(***************************************************************************)
(* ArrayElement and ConfigElementBuilder as the later elements.ts has      *)
(* them: the builder creates the element when ofTypeXyz() fixes the kind   *)
(* and its other methods work on that element.  An omitted argument is     *)
(* <<>>, a supplied one <<ce>>.                                            *)
(***************************************************************************)
\* TRUE when checkOrderedElementsEmpty() throws
checkOrderedElementsEmpty(this) == Len(this.orderedElements) > 0

\* ce || new XyzElement()
orNew(ce, fresh) == IF ce # <<>> THEN ce[1] ELSE fresh

allowNumberElements(this, ce) ==
    IF checkOrderedElementsEmpty(this)
    THEN Threw(this, InvalidConfigurationElementError)
    ELSE Done([this EXCEPT !.elements = mapSet(@, "number", orNew(ce, NumberElement))])

allowBooleanElements(this, ce) ==
    IF checkOrderedElementsEmpty(this)
    THEN Threw(this, InvalidConfigurationElementError)
    ELSE Done([this EXCEPT !.elements = mapSet(@, "boolean", orNew(ce, BooleanElement))])

allowStringElements(this, ce) ==
    IF checkOrderedElementsEmpty(this)
    THEN Threw(this, InvalidConfigurationElementError)
    ELSE Done([this EXCEPT !.elements = mapSet(@, "string", orNew(ce, StringElement))])

allowObjectElements(this, ce) ==
    IF checkOrderedElementsEmpty(this)
    THEN Threw(this, InvalidConfigurationElementError)
    ELSE Done([this EXCEPT !.elements = mapSet(@, "object", orNew(ce, ObjectElement))])

allowArrayElements(this, ce) ==
    IF checkOrderedElementsEmpty(this)
    THEN Threw(this, InvalidConfigurationElementError)
    ELSE Done([this EXCEPT !.elements = mapSet(@, "array", orNew(ce, ArrayElement))])

setOrderedElements(this, orderedElements) ==
    IF Len(this.elements) > 0
    THEN Threw(this, InvalidConfigurationElementError)
    ELSE Done([this EXCEPT !.orderedElements = orderedElements])

\* new ConfigElementBuilder(): no element, type undefined (0)
ConfigElementBuilder ==
    [numberElement |-> <<>>, booleanElement |-> <<>>, stringElement |-> <<>>,
     arrayElement |-> <<>>, objectElement |-> <<>>, type |-> 0]

\* type is a member of the enum ElementType: STRING = 3, ARRAY = 4
ofTypeArray(this) ==
    IF this.type # 0 THEN Threw(this, BuilderElementTypeDeterminedError)
    ELSE Done([this EXCEPT !.type = 4, !.arrayElement = <<ArrayElement>>])

ofTypeString(this) ==
    IF this.type # 0 THEN Threw(this, BuilderElementTypeDeterminedError)
    ELSE Done([this EXCEPT !.type = 3, !.stringElement = <<StringElement>>])

\* the builder after a call on its array element ended as r says
onArrayElement(this, r) ==
    Ended([this EXCEPT !.arrayElement = <<r.after>>], r.thrown, NoElement)

withNumberArrayElements(this, ce) ==
    IF this.arrayElement = <<>>
    THEN Threw(this, BuilderMissingOrInvalidOfTypeError("ofTypeArray",
                                                        "withNumberArrayElements"))
    ELSE IF ce # <<>> /\ ce[1].kind # "number"
         THEN Threw(this, BuilderArrayElementTypeError("NumberElement"))
         ELSE onArrayElement(this, allowNumberElements(this.arrayElement[1], ce))

\* faulty variant: the instanceof check on the supplied element is lost
withStringArrayElements_unchecked(this, ce) ==
    IF this.arrayElement = <<>>
    THEN Threw(this, BuilderMissingOrInvalidOfTypeError("ofTypeArray",
                                                        "withStringElement"))
    ELSE onArrayElement(this, allowStringElements(this.arrayElement[1], ce))

withStringArrayElements(this, ce) ==
    IF this.arrayElement = <<>>
    THEN Threw(this, BuilderMissingOrInvalidOfTypeError("ofTypeArray",
                                                        "withStringElement"))
    ELSE IF ce # <<>> /\ ce[1].kind # "string"
         THEN Threw(this, BuilderArrayElementTypeError("StringElement"))
         ELSE onArrayElement(this, allowStringElements(this.arrayElement[1], ce))

withBooleanArrayElements(this, ce) ==
    IF this.arrayElement = <<>>
    THEN Threw(this, BuilderMissingOrInvalidOfTypeError("ofTypeArray",
                                                        "withBooleanArrayElements"))
    ELSE IF ce # <<>> /\ ce[1].kind # "boolean"
         THEN Threw(this, BuilderArrayElementTypeError("BooleanElement"))
         ELSE onArrayElement(this, allowBooleanElements(this.arrayElement[1], ce))

withArrayArrayElements(this, ce) ==
    IF this.arrayElement = <<>>
    THEN Threw(this, BuilderMissingOrInvalidOfTypeError("ofTypeArray",
                                                        "withArrayArrayElements"))
    ELSE IF ce # <<>> /\ ce[1].kind # "array"
         THEN Threw(this, BuilderArrayElementTypeError("ArrayElement"))
         ELSE onArrayElement(this, allowArrayElements(this.arrayElement[1], ce))

withObjectArrayElements(this, ce) ==
    IF this.arrayElement = <<>>
    THEN Threw(this, BuilderMissingOrInvalidOfTypeError("ofTypeArray",
                                                        "withObjectArrayElements"))
    ELSE IF ce # <<>> /\ ce[1].kind # "object"
         THEN Threw(this, BuilderArrayElementTypeError("ObjectElement"))
         ELSE onArrayElement(this, allowObjectElements(this.arrayElement[1], ce))

withArrayElementList(this, elementList) ==
    IF this.arrayElement = <<>>
    THEN Threw(this, BuilderMissingOrInvalidOfTypeError("ofTypeArray",
                                                        "withArrayElementList"))
    ELSE onArrayElement(this, setOrderedElements(this.arrayElement[1], elementList))

(***************************************************************************)
(* The calls made on a builder or an element so far.                       *)
(***************************************************************************)
Call(method, arg, this, r) ==
    [method |-> method, arg |-> arg, before |-> this, after |-> r.after,
     thrown |-> r.thrown, returned |-> r.returned]

(***************************************************************************)
(* Bounds of the inputs, and the schemas and texts the parsers are tried   *)
(* on.                                                                     *)
(***************************************************************************)
MaxBound == 1
MaxVal == 2
MaxLen == 2

OptBool == {<<>>, <<TRUE>>, <<FALSE>>}

\* new ConfigParser(root): no options object
NoOptions ==
    [given |-> FALSE, throwOnFirstError |-> <<>>,
     pruneUnknownElements |-> <<>>, pruneDollarElements |-> <<>>]

OptionsSet ==
    {NoOptions} \cup
    [given : {TRUE}, throwOnFirstError : {<<>>, <<TRUE>>},
     pruneUnknownElements : {<<FALSE>>, <<TRUE>>},
     pruneDollarElements : OptBool]

named(ce, name) == [ce EXCEPT !.name = name]
optional(ce) == [ce EXCEPT !.isRequired = FALSE]
nullable(ce) == [ce EXCEPT !.canBeNull = TRUE]
allow(arr, tag, ce) == [arr EXCEPT !.elements = Append(@, [tag |-> tag, ce |-> ce])]

kx == <<"x">>
ky == <<"y">>
ka == <<"a">>
kb == <<"b">>
kc == <<"$", "c">>
kr == <<"$", "r">>

sa == Str(<<"a">>)
sb == Str(<<"b">>)

OptNum(lo, hi) == {<<>>} \cup {<<n>> : n \in lo..hi}

\* { x: Number(min, max) }
NumberRoots ==
    {addChild(ObjectElement,
              [named(NumberElement, kx) EXCEPT !.minValue = a, !.maxValue = b]) :
        a \in OptNum(0 - MaxBound, MaxBound), b \in OptNum(0 - MaxBound, MaxBound)}

NumberTexts == {Text(Obj(<<M(kx, Num(n))>>)) : n \in (0 - MaxVal)..MaxVal}

\* { x: String(minLength, maxLength, validValues) }
StringRoots ==
    {addChild(ObjectElement,
              [named(StringElement, kx) EXCEPT !.minLength = a, !.maxLength = b,
                                                !.validValues = vv]) :
        a \in OptNum(0, MaxLen), b \in OptNum(0, MaxLen),
        vv \in {<<>>, <<<<"a">>>>, <<<<"a">>, <<"b", "b">>>>}}

StringTexts ==
    {Text(Obj(<<M(kx, Str(s))>>)) :
        s \in {<<>>, <<"a">>, <<"b">>, <<"b", "b">>, <<"a", "b", "c">>}}

\* { a: { x: String }, b: Number(max 1), $c?: String }
TreeRoot ==
    addChildren(ObjectElement,
        <<addChild(named(ObjectElement, ka), named(StringElement, kx)),
          [named(NumberElement, kb) EXCEPT !.maxValue = <<1>>],
          optional(named(StringElement, kc))>>)

inner == Obj(<<M(kx, sa), M(ky, sb)>>)

TreeTexts ==
    {Text(Obj(<<M(ka, inner), M(kb, Num(1))>>)),
     Text(Obj(<<M(ka, inner), M(kb, Num(2))>>)),
     Text(Obj(<<M(kb, Num(2)), M(ka, inner)>>)),
     Text(Obj(<<M(ka, Obj(<<M(kx, sa), M(kc, sb), M(ky, Obj(<<M(kc, sa)>>))>>)),
                M(kb, Num(0)), M(ky, Num(0)), M(kc, sa), M(kr, sa)>>)),
     Text(Obj(<<M(ka, Obj(<<M(kx, sa), M(kr, sb)>>)), M(kc, Num(3)),
                M(kb, Num(1))>>)),
     Text(Obj(<<M(ka, Obj(<<M(kx, sa)>>))>>)),
     Text(Obj(<<M(ka, Null), M(kb, Num(1)), M(ky, sa)>>)),
     Text(Obj(<<M(ka, Arr(<<inner>>)), M(kb, sa)>>)),
     Text(Obj(<<M(ka, inner), M(kb, Num(1)), M(ky, Obj(<<M(kc, sa)>>)),
                M(kx, Arr(<<Obj(<<M(kr, sb)>>)>>))>>)),
     Text(Obj(<<M(ka, Obj(<<M(kx, Num(1)), M(kx, sa)>>)),
                M(kb, Num(5)), M(kb, Num(1))>>)),
     Text(Arr(<<>>)), Text(Num(1)), Text(Null)}

\* { $r: Number, x?: String }
DollarRoot ==
    addChildren(ObjectElement,
        <<named(NumberElement, kr), optional(named(StringElement, kx))>>)

DollarTexts ==
    {Text(Obj(<<M(kr, Num(1)), M(kx, sa), M(ky, sa)>>)),
     Text(Obj(<<M(kx, sa)>>)),
     Text(Obj(<<M(kr, sa), M(kc, sa)>>))}

\* [ { x: Number(min 1) } | string ... ]
ArrayRoot ==
    allow(allow(ArrayElement, "object",
                addChild(ObjectElement,
                         [named(NumberElement, kx) EXCEPT !.minValue = <<1>>])),
          "string", StringElement)

ArrayTexts ==
    {Text(Arr(<<Obj(<<M(kx, Num(1)), M(ky, sa)>>), sa>>)),
     Text(Arr(<<Obj(<<M(kx, Num(1)), M(ky, sa)>>), Num(1),
                Obj(<<M(kx, Num(2)), M(kc, sa)>>)>>)),
     Text(Arr(<<Obj(<<M(kx, Num(0)), M(ky, sa)>>), Null, Arr(<<>>)>>)),
     Text(Obj(<<>>)), Text(Null), Text(sa)}

\* { a: [ Object{x: String}, Boolean ], b?: [any] }
TupleRoot ==
    addChildren(ObjectElement,
        <<[named(ArrayElement, ka) EXCEPT !.orderedElements =
              <<addChild(ObjectElement, named(StringElement, kx)),
                BooleanElement>>],
          optional(nullable(named(ArrayElement, kb)))>>)

TupleTexts ==
    {Text(Obj(<<M(ka, Arr(<<inner, Bool(TRUE)>>)), M(kb, Arr(<<inner, Null>>))>>)),
     Text(Obj(<<M(ka, Arr(<<inner, Null>>)), M(kb, Null)>>)),
     Text(Obj(<<M(ka, Arr(<<inner>>))>>)),
     Text(Obj(<<M(ka, Arr(<<Num(1), Bool(TRUE), inner>>))>>)),
     Text(Obj(<<M(ka, Arr(<<Bool(TRUE), inner>>))>>)),
     Text(Obj(<<M(ka, inner), M(kb, Arr(<<>>))>>))}

\* one element of every kind, each with constraints of its own
ConstrainedElements ==
    {[NumberElement EXCEPT !.minValue = <<1>>, !.maxValue = <<1>>],
     [StringElement EXCEPT !.minLength = <<1>>, !.validValues = <<<<"a">>>>],
     BooleanElement,
     addChild(ObjectElement, named(NumberElement, kx)),
     [ArrayElement EXCEPT !.orderedElements = <<NumberElement>>],
     allow(ArrayElement, "number", NumberElement),
     ArrayElement}

\* { x: K(nullable or not), y?: Number(nullable) }
NullRoots ==
    {addChildren(ObjectElement,
        <<[named(k, kx) EXCEPT !.canBeNull = c, !.isRequired = q],
          optional(nullable(named(NumberElement, ky)))>>) :
        k \in ConstrainedElements, c \in BOOLEAN, q \in BOOLEAN}

NullTexts ==
    {Text(Obj(<<M(kx, Null)>>)),
     Text(Obj(<<M(ky, Null), M(kx, Null)>>)),
     Text(Obj(<<M(kx, Num(1)), M(kx, Null)>>))}

\* { x: Number, y: String, a?: Boolean(default true),
\*   b?: { x: Number, a?: String(default "a") } }
MissingRoot ==
    addChildren(ObjectElement,
        <<named(NumberElement, kx),
          named(StringElement, ky),
          setDefaultValue(optional(named(BooleanElement, ka)), Bool(TRUE)),
          optional(addChildren(named(ObjectElement, kb),
              <<named(NumberElement, kx),
                setDefaultValue(optional(named(StringElement, ka)), sa)>>))>>)

MissingTexts ==
    {Text(Obj(<<>>)),
     Text(Obj(<<M(kx, Num(1))>>)),
     Text(Obj(<<M(ky, sa)>>)),
     Text(Obj(<<M(ky, sa), M(kx, Num(1))>>)),
     Text(Obj(<<M(ka, Bool(FALSE)), M(kb, Obj(<<>>))>>)),
     Text(Obj(<<M(kx, Num(1)), M(ky, sa), M(kb, Obj(<<M(kx, Num(1))>>))>>)),
     Text(Obj(<<M(kx, Num(1)), M(ky, sa), M(kb, Obj(<<M(ka, sb)>>)), M(kc, sa)>>))}

\* [ Number(nullable or not), String ], null entries allowed or not
OrderedRoots ==
    {[ArrayElement EXCEPT !.allowNull = n,
         !.orderedElements = <<[NumberElement EXCEPT !.canBeNull = c], StringElement>>] :
        n \in BOOLEAN, c \in BOOLEAN}

OrderedTexts ==
    {Text(Arr(<<Num(1), sa>>)),
     Text(Arr(<<Null, sa>>)),
     Text(Arr(<<Null, Null>>)),
     Text(Arr(<<sa, Num(1)>>)),
     Text(Arr(<<Num(1)>>)),
     Text(Arr(<<>>)),
     Text(Arr(<<Num(1), sa, Null>>)),
     Text(Arr(<<sa, Num(1), Bool(TRUE)>>))}

\* [ Number(nullable or not, max 1) | [any] ... ], null entries allowed or not;
\* [ Object ... ]; [ Object | [Number ...] ... ]
TypedRoots ==
    {[allow(allow(ArrayElement, "number",
                  [NumberElement EXCEPT !.canBeNull = c, !.maxValue = <<1>>]),
            "array", ArrayElement) EXCEPT !.allowNull = n] :
        n \in BOOLEAN, c \in BOOLEAN} \cup
    {allow(ArrayElement, "object", ObjectElement),
     allow(allow(ArrayElement, "object", ObjectElement),
           "array", allow(ArrayElement, "number", NumberElement))}

TypedTexts ==
    {Text(Arr(<<Num(1), Null, sa, Null, Num(2)>>)),
     Text(Arr(<<Arr(<<Num(1)>>), Obj(<<>>), Arr(<<Null, sa>>)>>)),
     Text(Arr(<<Bool(TRUE), sa, Num(0)>>)),
     Text(Arr(<<Obj(<<M(kx, Arr(<<>>))>>), Arr(<<>>)>>)),
     Text(Arr(<<>>))}

\* [ any ... ], null entries allowed or not
AnyRoots == {[ArrayElement EXCEPT !.allowNull = n] : n \in BOOLEAN}

AnyTexts ==
    {Text(Arr(<<Null, Num(1), Null>>)),
     Text(Arr(<<Null>>)),
     Text(Arr(<<Num(1), sa, Bool(FALSE), Obj(<<M(kc, sa)>>), Arr(<<Null>>)>>)),
     Text(Arr(<<>>)),
     Text(Obj(<<>>))}

\* a primitive element as root
PrimitiveRoot == NumberElement

\* { x: Number(max 1) with two validators, y?: nullable String with one }
ValidatedRoot ==
    addChildren(ObjectElement,
        <<addValidators(named([NumberElement EXCEPT !.maxValue = <<1>>], kx),
                        <<ElementValidator({Num(1)}), ElementValidator({})>>),
          optional(nullable(addValidators(named(StringElement, ky),
                                          <<ElementValidator({sa})>>)))>>)

ValidatedTexts ==
    {Text(Obj(<<M(kx, Num(1))>>)),
     Text(Obj(<<M(kx, Num(0)), M(ky, sa)>>)),
     Text(Obj(<<M(kx, Num(2)), M(ky, sb)>>)),
     Text(Obj(<<M(kx, sa), M(ky, Null)>>)),
     Text(Obj(<<M(kx, Null)>>))}

Scenarios ==
    {[root |-> r, texts |-> NumberTexts] : r \in NumberRoots} \cup
    {[root |-> r, texts |-> StringTexts] : r \in StringRoots} \cup
    {[root |-> r, texts |-> NullTexts] : r \in NullRoots} \cup
    {[root |-> r, texts |-> OrderedTexts] : r \in OrderedRoots} \cup
    {[root |-> r, texts |-> TypedTexts] : r \in TypedRoots} \cup
    {[root |-> r, texts |-> AnyTexts] : r \in AnyRoots} \cup
    {[root |-> TreeRoot, texts |-> TreeTexts],
     [root |-> DollarRoot, texts |-> DollarTexts],
     [root |-> MissingRoot, texts |-> MissingTexts],
     [root |-> ArrayRoot, texts |-> ArrayTexts],
     [root |-> TupleRoot, texts |-> TupleTexts],
     [root |-> ValidatedRoot, texts |-> ValidatedTexts],
     [root |-> PrimitiveRoot, texts |-> {Text(Num(1)), Text(Obj(<<>>)), Text(Null)}]}

TextsFor(r) == {BadText} \cup UNION {sc.texts : sc \in {s \in Scenarios : s.root = r}}

(***************************************************************************)
(* The parser as a state machine.                                          *)
(***************************************************************************)
\* !!x of an optional boolean
bang2(x) == x # <<>> /\ x[1]

\* constructor(root, options?)
Constructor(r, opts) ==
    /\ root = r
    /\ options = opts
    /\ errors = <<>>
    /\ throwOnFirstError = (IF ~opts.given THEN FALSE ELSE bang2(opts.throwOnFirstError))
    /\ pruneUnknownElements =
          (IF ~opts.given THEN FALSE ELSE bang2(opts.pruneUnknownElements))
    /\ pruneDollarElements =
          (IF ~opts.given \/ opts.pruneDollarElements = <<>> THEN TRUE
           ELSE opts.pruneDollarElements[1])

Init ==
    /\ \E sc \in Scenarios, opts \in OptionsSet : Constructor(sc.root, opts)
    /\ calls = 0
    /\ text = BadText
    /\ before = <<>>
    /\ outcome = NoOutcome
    /\ trace = <<>>
    /\ parts = <<>>
    /\ document = NoTree
    /\ subject = root
    /\ given = NoTree
    /\ answer = FALSE
    /\ builder = ConfigElementBuilder
    /\ done = <<>>

\* the call parser.parse(jsonString) ended as p says
Called(p) ==
    /\ errors' = p.errors
    /\ outcome' = p.outcome
    /\ trace' = p.trace
    /\ parts' = p.parts
    /\ document' = p.document

\* faulty variant: the call marks the root element as nullable
Parse_marking(jsonString) ==
    /\ calls < MaxCalls
    /\ Called(parse(jsonString, errors))
    /\ calls' = calls + 1
    /\ text' = jsonString
    /\ before' = errors
    /\ root' = nullable(root)
    /\ UNCHANGED <<options, throwOnFirstError, pruneUnknownElements,
                   pruneDollarElements, subject, given, answer,
                   builder, done>>

\* parser.parse(jsonString)
Parse(jsonString) ==
    /\ calls < MaxCalls
    /\ Called(parse(jsonString, errors))
    /\ calls' = calls + 1
    /\ text' = jsonString
    /\ before' = errors
    /\ UNCHANGED <<root, options, throwOnFirstError, pruneUnknownElements,
                   pruneDollarElements, subject, given, answer,
                   builder, done>>

Next == \E jsonString \in TextsFor(root) : Parse(jsonString)

Spec == Init /\ [][Next]_vars

(***************************************************************************)
(* The elements on their own: an element of one of the five classes is     *)
(* asked whether values are of its type.                                   *)
(***************************************************************************)
Strings == UNION {[1..n -> {"a", "b"}] : n \in 0..MaxLen}

Primitives ==
    {Num(n) : n \in (0 - MaxVal)..MaxVal} \cup {Str(str) : str \in Strings}
        \cup {Bool(b) : b \in BOOLEAN}

\* string, number, boolean, array and record values
Values ==
    Primitives
        \cup {Arr(<<>>), Arr(<<Obj(<<>>)>>), Arr(<<Num(1), Num(2)>>)}
        \cup {Arr(<<p>>) : p \in Primitives \cup {Null}}
        \cup {Obj(<<>>), Obj(<<M(kx, Arr(<<>>))>>)}
        \cup {Obj(<<M(kx, p)>>) : p \in Primitives \cup {Null}}

Elements == {ObjectElement, ArrayElement, BooleanElement, NumberElement, StringElement}

ElementInit ==
    /\ subject \in Elements
    /\ given = NoTree
    /\ answer = FALSE
    /\ Constructor(subject, NoOptions)
    /\ calls = 0
    /\ text = BadText
    /\ before = <<>>
    /\ outcome = NoOutcome
    /\ trace = <<>>
    /\ parts = <<>>
    /\ document = NoTree
    /\ builder = ConfigElementBuilder
    /\ done = <<>>

\* subject.isCorrectType(element)
IsCorrectType(element) ==
    /\ given' = element
    /\ answer' = ConfigElement_isCorrectType(subject, element)
    /\ UNCHANGED <<root, options, throwOnFirstError, pruneUnknownElements,
                   pruneDollarElements, errors, calls, text, before, outcome,
                   trace, parts, document, subject, builder, done>>

ElementNext == \E element \in Values : IsCorrectType(element)

ElementSpec == ElementInit /\ [][ElementNext]_vars

(***************************************************************************)
(* The builder of src/elements.ts on its own: any MaxSteps calls on one    *)
(* new ConfigElementBuilder.                                               *)
(***************************************************************************)
MaxSteps == 3

\* no parser call was made
NoParse ==
    /\ calls = 0
    /\ text = BadText
    /\ before = <<>>
    /\ outcome = NoOutcome
    /\ trace = <<>>
    /\ parts = <<>>
    /\ document = NoTree

Bounds == 0..MaxBound
DefaultValues == {Num(0), sa, Bool(TRUE)}
ChildLists == {<<>>, <<named(NumberElement, kx)>>}

BuilderInit ==
    /\ builder = ConfigElementBuilder_new
    /\ done = <<>>
    /\ subject = ObjectElement
    /\ given = NoTree
    /\ answer = FALSE
    /\ Constructor(subject, NoOptions)
    /\ NoParse

\* a call of a builder method ended as r says
OnBuilder(method, arg, r) ==
    /\ Len(done) < MaxSteps
    /\ builder' = r.after
    /\ done' = Append(done, Call(method, arg, builder, r))
    /\ UNCHANGED <<root, options, throwOnFirstError, pruneUnknownElements,
                   pruneDollarElements, errors, calls, text, before, outcome,
                   trace, parts, document, subject, given, answer>>

BuilderNext ==
    \/ OnBuilder("ofTypeObject", <<>>, ConfigElementBuilder_ofTypeObject(builder))
    \/ OnBuilder("ofTypeArray", <<>>, ConfigElementBuilder_ofTypeArray(builder))
    \/ OnBuilder("ofTypeBoolean", <<>>, ConfigElementBuilder_ofTypeBoolean(builder))
    \/ OnBuilder("ofTypeNumber", <<>>, ConfigElementBuilder_ofTypeNumber(builder))
    \/ OnBuilder("ofTypeString", <<>>, ConfigElementBuilder_ofTypeString(builder))
    \/ \E max \in Bounds :
          OnBuilder("withMaxLength", <<max>>,
                    ConfigElementBuilder_withMaxLength(builder, max))
    \/ \E min \in Bounds :
          OnBuilder("withMinLength", <<min>>,
                    ConfigElementBuilder_withMinLength(builder, min))
    \/ \E max \in Bounds :
          OnBuilder("withMaxValue", <<max>>,
                    ConfigElementBuilder_withMaxValue(builder, max))
    \/ \E min \in Bounds :
          OnBuilder("withMinValue", <<min>>,
                    ConfigElementBuilder_withMinValue(builder, min))
    \/ OnBuilder("canBeNull", <<>>, ConfigElementBuilder_canBeNull(builder))
    \/ OnBuilder("isOptional", <<>>, ConfigElementBuilder_isOptional(builder))
    \/ \E value \in DefaultValues :
          OnBuilder("withDefaultValue", <<value>>,
                    ConfigElementBuilder_withDefaultValue(builder, value))
    \/ \E children \in ChildLists :
          OnBuilder("withChildElements", <<children>>,
                    ConfigElementBuilder_withChildElements(builder, children))
    \/ OnBuilder("withName", <<kx>>, ConfigElementBuilder_withName(builder, kx))
    \/ OnBuilder("build", <<>>, ConfigElementBuilder_build(builder))

BuilderSpec == BuilderInit /\ [][BuilderNext]_vars

(***************************************************************************)
(* The ArrayElement of src/elements.ts on its own: any MaxSteps calls of   *)
(* its shape methods on one new ArrayElement (subject).                    *)
(***************************************************************************)
ElementLists == {<<>>, <<StringElement>>, <<NumberElement, StringElement>>}

ArrayInit ==
    /\ subject = ArrayElement
    /\ done = <<>>
    /\ builder = ConfigElementBuilder_new
    /\ given = NoTree
    /\ answer = FALSE
    /\ Constructor(subject, NoOptions)
    /\ NoParse

\* a call of a method of subject ended as r says
OnSubject(method, arg, r) ==
    /\ Len(done) < MaxSteps
    /\ subject' = r.after
    /\ done' = Append(done, Call(method, arg, subject, r))
    /\ UNCHANGED <<root, options, throwOnFirstError, pruneUnknownElements,
                   pruneDollarElements, errors, calls, text, before, outcome,
                   trace, parts, document, given, answer, builder>>

ArrayNext ==
    \/ \E ce \in {NumberElement, nullable(NumberElement)} :
          OnSubject("allowNumberElements", <<ce>>,
                    ArrayElement_allowNumberElements(subject, ce))
    \/ \E ce \in {BooleanElement, nullable(BooleanElement)} :
          OnSubject("allowBooleanElements", <<ce>>,
                    ArrayElement_allowBooleanElements(subject, ce))
    \/ \E ce \in {StringElement, nullable(StringElement)} :
          OnSubject("allowStringElements", <<ce>>,
                    ArrayElement_allowStringElements(subject, ce))
    \/ \E ce \in {ObjectElement, nullable(ObjectElement)} :
          OnSubject("allowObjectElements", <<ce>>,
                    ArrayElement_allowObjectElements(subject, ce))
    \/ \E ce \in {ArrayElement, nullable(ArrayElement)} :
          OnSubject("allowArrayElements", <<ce>>,
                    ArrayElement_allowArrayElements(subject, ce))
    \/ \E orderedElements \in ElementLists :
          OnSubject("setOrderedElements", <<orderedElements>>,
                    ArrayElement_setOrderedElements(subject, orderedElements))

ArraySpec == ArrayInit /\ [][ArrayNext]_vars

(***************************************************************************)
(* The later builder on its array-shape methods: any MaxSteps calls on one *)
(* new ConfigElementBuilder.                                               *)
(***************************************************************************)
\* the arguments tried: none, or an element that differs from a new one
Supplied == {<<>>} \cup {<<nullable(ce)>> : ce \in Elements}

ArrayBuilderInit ==
    /\ builder = ConfigElementBuilder
    /\ done = <<>>
    /\ subject = ArrayElement
    /\ given = NoTree
    /\ answer = FALSE
    /\ Constructor(subject, NoOptions)
    /\ NoParse

ArrayBuilderNext ==
    \/ OnBuilder("ofTypeArray", <<>>, ofTypeArray(builder))
    \/ OnBuilder("ofTypeString", <<>>, ofTypeString(builder))
    \/ \E ce \in Supplied :
          OnBuilder("withNumberArrayElements", ce, withNumberArrayElements(builder, ce))
    \/ \E ce \in Supplied :
          OnBuilder("withStringArrayElements", ce, withStringArrayElements(builder, ce))
    \/ \E ce \in Supplied :
          OnBuilder("withBooleanArrayElements", ce, withBooleanArrayElements(builder, ce))
    \/ \E ce \in Supplied :
          OnBuilder("withArrayArrayElements", ce, withArrayArrayElements(builder, ce))
    \/ \E ce \in Supplied :
          OnBuilder("withObjectArrayElements", ce, withObjectArrayElements(builder, ce))
    \/ \E elementList \in ElementLists :
          OnBuilder("withArrayElementList", <<elementList>>,
                    withArrayElementList(builder, elementList))

ArrayBuilderSpec == ArrayBuilderInit /\ [][ArrayBuilderNext]_vars

(***************************************************************************)
(* Vocabulary of the properties.                                           *)
(***************************************************************************)
\* the last call decoded its text
decoded == calls > 0 /\ text.ok

\* the errors the last call recorded
runErrors == SubSeq(errors, Len(before) + 1, Len(errors))

\* the errors recorded between the start and the end of the i-th validateXyz
\* call; for a primitive element these are the errors of that node
nodeErrors(i) == SubSeq(errors, trace[i].nerr + 1, trace[i].nend)

Range(s) == {s[i] : i \in 1..Len(s)}

\* C1 (as claimed): with throwOnFirstError=false a decodable text makes parse
\* throw ConfigParseFailureError exactly when the validation of that text
\* recorded an error, and return a tree otherwise.
C1_ThrowsIffErrorRecorded ==
    (decoded /\ ~throwOnFirstError) =>
        IF runErrors # <<>> THEN outcome = Thrown(ConfigParseFailureError)
        ELSE outcome.kind = "return"

\* C2 (as claimed): with throwOnFirstError=true parse throws the first
\* validation error itself, no validation step starts after that error was
\* recorded, and getErrors() then holds exactly that error.
C2_ThrowsFirstErrorOnly ==
    (decoded /\ throwOnFirstError /\ runErrors # <<>>) =>
        /\ outcome = Thrown(runErrors[1])
        /\ \A i \in 1..Len(trace) : trace[i].nerr = Len(before)
        /\ getErrors = <<runErrors[1]>>

\* C3 (as claimed): the outcome of a parse call and getErrors() after it are
\* those of the same call on a parser that has not parsed anything before.
sameAs(fresh) == outcome = fresh.outcome /\ getErrors = fresh.errors

C3_ErrorsPerCall == calls > 0 => sameAs(parse(text, <<>>))

\* C4 (as claimed): with pruneUnknownElements=true and throwOnFirstError=false a
\* run that records an error leaves every undeclared field in place in every
\* object it validated (fields that meta pruning removes are not counted).
C4_NoPruningOnError ==
    (decoded /\ pruneUnknownElements /\ ~throwOnFirstError /\ runErrors # <<>>) =>
        \A i \in 1..Len(parts) :
            \A f \in Range(extraFieldsOf(Fields(parts[i].before),
                                         getChildFieldNames(parts[i].ce))) :
                (pruneDollarElements /\ startsWithDollar(f))
                \/ f \in Range(Fields(parts[i].after))

\* some object of the tree has a key that starts with "$"
RECURSIVE hasDollarKey(_)
hasDollarKey(x) ==
    IF x.t = "object"
    THEN \E i \in 1..Len(x.v) : startsWithDollar(x.v[i].k) \/ hasDollarKey(x.v[i].v)
    ELSE IF x.t = "array" THEN \E i \in 1..Len(x.v) : hasDollarKey(x.v[i])
    ELSE FALSE

\* every object of the tree x that the validator visits when it walks x along
\* the element ce holds only keys that ce declares
RECURSIVE onlyDeclared(_, _)
onlyDeclared(x, ce) ==
    CASE ce.kind = "object" /\ x.t = "object" ->
            \A i \in 1..Len(x.v) :
                /\ x.v[i].k \in Range(getChildFieldNames(ce))
                /\ onlyDeclared(x.v[i].v, getChild(ce, x.v[i].k))
      [] ce.kind = "array" /\ x.t = "array" /\ Len(ce.orderedElements) > 0 ->
            \A i \in 1..Len(x.v) : onlyDeclared(x.v[i], ce.orderedElements[i])
      [] ce.kind = "array" /\ x.t = "array" /\ Len(ce.elements) > 0 ->
            \A i \in 1..Len(x.v) :
                isValidElementType(ce, x.v[i].t)
                    => onlyDeclared(x.v[i], getElementConfig(ce, x.v[i].t))
      [] OTHER -> TRUE

\* C5: after a successful parse with pruneUnknownElements=true every object
\* validated against an ObjectElement holds only declared keys; with
\* pruneUnknownElements=false and no "$" key in the input the returned tree is
\* the decoded input, every key and value unchanged.
C5_PruneKeepsDeclaredOnly ==
    (decoded /\ outcome.kind = "return") =>
        /\ pruneUnknownElements =>
              /\ onlyDeclared(outcome.tree, root)
              /\ \A i \in 1..Len(parts) :
                    Range(Fields(parts[i].after))
                        \subseteq Range(getChildFieldNames(parts[i].ce))
        /\ (~pruneUnknownElements /\ ~hasDollarKey(JSONparse(text.doc))) =>
              outcome.tree = JSONparse(text.doc)

\* C5 witness: a successful pruning parse of a tree in which a nested object
\* had an undeclared field.
C5_Witness ==
    /\ decoded /\ outcome.kind = "return" /\ pruneUnknownElements
    /\ Len(parts) > 1
    /\ \E f \in Range(Fields(parts[1].before)) :
          /\ ~startsWithDollar(f)
          /\ f \notin Range(getChildFieldNames(parts[1].ce))
          /\ f \notin Range(Fields(parts[1].after))

\* the validateObject calls of the last run that got past the null and type
\* checks, i.e. reached field partitioning
partitioned ==
    {i \in 1..Len(trace) : trace[i].op = "validateObject" /\ trace[i].val.t = "object"}

\* C6: with throwOnFirstError=false every object that reaches field
\* partitioning ends the run without any "$" key when pruneDollarElements is
\* true (the default, also for an options object without that key), whatever the
\* errors, pruneUnknownElements and the schema; when it is false a "$" key
\* disappears only by unknown-element pruning.
C6_MetaPruningUnconditional ==
    /\ (~options.given \/ options.pruneDollarElements = <<>>) => pruneDollarElements
    /\ (options.given /\ options.pruneDollarElements # <<>>) =>
          pruneDollarElements = options.pruneDollarElements[1]
    /\ (decoded /\ ~throwOnFirstError) =>
          /\ Cardinality(partitioned) = Len(parts)
          /\ \A i \in 1..Len(parts) :
                \A f \in Range(dollarFieldsOf(Fields(parts[i].before))) :
                    IF pruneDollarElements
                    THEN f \notin Range(Fields(parts[i].after))
                    ELSE \/ f \in Range(Fields(parts[i].after))
                         \/ /\ pruneUnknownElements
                            /\ parts[i].nerr = 0
                            /\ f \notin Range(getChildFieldNames(parts[i].ce))

\* C6 witness: a run with errors, without unknown-element pruning, on a parser
\* built with an options object that lacks pruneDollarElements, in which an
\* object had a declared "$" key.
C6_Witness ==
    /\ decoded /\ ~throwOnFirstError /\ ~pruneUnknownElements
    /\ options.given /\ options.pruneDollarElements = <<>>
    /\ runErrors # <<>>
    /\ \E i \in 1..Len(parts) :
          \E f \in Range(dollarFieldsOf(Fields(parts[i].before))) :
              /\ f \in Range(getChildFieldNames(parts[i].ce))
              /\ f \notin Range(Fields(parts[i].after))

\* parsing the returned tree again, re-serialized, on a fresh parser of the
\* same schema and options returns an equal tree
reparseIsSame ==
    parse(JSONstringify(outcome.tree), <<>>).outcome = Returned(outcome.tree)

\* C7 (as claimed): whenever parse with pruneUnknownElements=true succeeds,
\* parsing its result again succeeds and returns an equal tree.
C7_PruneIdempotent ==
    (decoded /\ outcome.kind = "return" /\ pruneUnknownElements) => reparseIsSame

\* some ObjectElement of the schema declares a required child named "$..."
RECURSIVE requiresDollarChild(_)
requiresDollarChild(ce) ==
    \/ \E i \in 1..Len(ce.children) :
          \/ (ce.children[i].isRequired /\ startsWithDollar(ce.children[i].name))
          \/ requiresDollarChild(ce.children[i])
    \/ \E i \in 1..Len(ce.elements) : requiresDollarChild(ce.elements[i].ce)
    \/ \E i \in 1..Len(ce.orderedElements) : requiresDollarChild(ce.orderedElements[i])

\* C7 (amended): the same, for parsers that do not both prune "$" keys and
\* require a child whose name starts with "$".
C7_PruneIdempotentAmended ==
    (decoded /\ outcome.kind = "return" /\ pruneUnknownElements
        /\ ~(pruneDollarElements /\ requiresDollarChild(root))) => reparseIsSame

\* C7 witness: a successful pruning parse that removed a field, on such a parser.
C7_Witness ==
    /\ decoded /\ outcome.kind = "return" /\ pruneUnknownElements
    /\ ~(pruneDollarElements /\ requiresDollarChild(root))
    /\ outcome.tree # JSONparse(text.doc)

\* the validateNumber calls of the last run on a numeric value
numberNodes ==
    {i \in 1..Len(trace) : trace[i].op = "validateNumber" /\ trace[i].val.t = "number"}

\* the validateString calls of the last run on a string value
stringNodes ==
    {i \in 1..Len(trace) : trace[i].op = "validateString" /\ trace[i].val.t = "string"}

\* C8 (as claimed): a number checked against minValue=a <= maxValue=b records
\* no error inside [a, b] and exactly one InvalidValueError below a or above b;
\* an unset bound is no limit.
C8_NumberRange ==
    decoded =>
        \A i \in numberNodes :
            LET v == trace[i].val.v
                min == trace[i].ce.minValue
                max == trace[i].ce.maxValue
                out == (min # <<>> /\ v < min[1]) \/ (max # <<>> /\ v > max[1])
            IN  ~(min # <<>> /\ max # <<>> /\ min[1] > max[1]) =>
                    IF out
                    THEN /\ Len(nodeErrors(i)) = 1
                         /\ nodeErrors(i)[1].type = "InvalidValueError"
                    ELSE nodeErrors(i) = <<>>

\* C9 (as claimed): a bound equal to 0 is enforced like any other bound: a
\* value above maxValue=0, a value below minValue=0 and a length above
\* maxLength=0 each record an InvalidValueError.
C9_ZeroBoundEnforced ==
    decoded =>
        /\ \A i \in numberNodes :
              /\ (trace[i].ce.maxValue = <<0>> /\ trace[i].val.v > 0) =>
                    InvalidValueError("max") \in Range(nodeErrors(i))
              /\ (trace[i].ce.minValue = <<0>> /\ trace[i].val.v < 0) =>
                    InvalidValueError("min") \in Range(nodeErrors(i))
        /\ \A i \in stringNodes :
              (/\ trace[i].ce.maxLength = <<0>>
               /\ Len(trace[i].val.v) > 0
               /\ trace[i].ce.validValues = <<>>) =>
                    InvalidValueError("max") \in Range(nodeErrors(i))

\* C10: a string checked against a non-empty list of valid values records no
\* enumeration error iff it equals a listed value; a non-member records
\* exactly one InvalidValueError, the enumeration error, and no length error.
C10_ValidValues ==
    decoded =>
        \A i \in stringNodes :
            Len(trace[i].ce.validValues) > 0 =>
                LET member == trace[i].val.v \in Range(trace[i].ce.validValues)
                IN  /\ member <=> InvalidValueError("enum") \notin Range(nodeErrors(i))
                    /\ ~member => nodeErrors(i) = <<InvalidValueError("enum")>>

\* C10 witness: a string that is not a listed value and is longer than
\* maxLength was checked.
C10_Witness ==
    /\ decoded
    /\ \E i \in stringNodes :
          /\ Len(trace[i].ce.validValues) > 0
          /\ trace[i].val.v \notin Range(trace[i].ce.validValues)
          /\ trace[i].ce.maxLength # <<>>
          /\ trace[i].ce.maxLength[1] > 0
          /\ Len(trace[i].val.v) > trace[i].ce.maxLength[1]
          /\ nodeErrors(i) # <<>>

\* C11 (as claimed): a string checked against minLength=a <= maxLength=b and no
\* valid values records no error when its length is inside [a, b] and exactly
\* one InvalidValueError when it is shorter than a or longer than b; an unset
\* bound is no limit.
C11_StringLength ==
    decoded =>
        \A i \in stringNodes :
            LET n == Len(trace[i].val.v)
                min == trace[i].ce.minLength
                max == trace[i].ce.maxLength
                out == (min # <<>> /\ n < min[1]) \/ (max # <<>> /\ n > max[1])
            IN  (/\ trace[i].ce.validValues = <<>>
                 /\ ~(min # <<>> /\ max # <<>> /\ min[1] > max[1])) =>
                    IF out
                    THEN /\ Len(nodeErrors(i)) = 1
                         /\ nodeErrors(i)[1].type = "InvalidValueError"
                    ELSE nodeErrors(i) = <<>>

(***************************************************************************)
(* The call tree of a run, read off the trace.                             *)
(***************************************************************************)
\* the run of the last call was cut short by a thrown validation error
aborted == throwOnFirstError /\ runErrors # <<>>

\* the calls made directly by the i-th call, in order
RECURSIVE kids(_, _)
kids(j, last) == IF j > last THEN <<>> ELSE <<j>> \o kids(trace[j].last + 1, last)

kidsOf(i) == kids(i + 1, trace[i].last)

\* what the calls made directly by the i-th call were given
passedOn(i) ==
    [k \in 1..Len(kidsOf(i)) |->
        [val |-> trace[kidsOf(i)[k]].val, ce |-> trace[kidsOf(i)[k]].ce]]

\* the errors the i-th call recorded before the first call it made
firstErrors(i) ==
    SubSeq(errors, trace[i].nerr + 1,
           IF trace[i].last > i THEN trace[i + 1].nerr ELSE trace[i].nend)

\* the errors the i-th call recorded itself, not the calls it made
RECURSIVE ownFrom(_, _)
ownFrom(i, p) ==
    IF p > trace[i].nend THEN <<>>
    ELSE IF \E k \in 1..Len(kidsOf(i)) :
                trace[kidsOf(i)[k]].nerr < p /\ p <= trace[kidsOf(i)[k]].nend
         THEN ownFrom(i, p + 1)
         ELSE <<errors[p]>> \o ownFrom(i, p + 1)

ownErrors(i) == ownFrom(i, trace[i].nerr + 1)

\* s is t, or, on a run cut short, the part of t done until then
doneOf(s, t) ==
    IF aborted THEN Len(s) <= Len(t) /\ s = SubSeq(t, 1, Len(s)) ELSE s = t

RECURSIVE selectSeq(_, _)
selectSeq(s, keep) ==
    IF s = <<>> THEN <<>>
    ELSE IF Head(s) \in keep THEN <<Head(s)>> \o selectSeq(Tail(s), keep)
         ELSE selectSeq(Tail(s), keep)

\* the entries of a sequence of errors that are of one type
ofType(es, type) == selectSeq(es, {e \in Range(es) : e.type = type})

\* C12: a null value of a declared object child, whatever the kind and the
\* other constraints of the child's element, is handed to the validation of
\* that element, which records nothing when canBeNull is true and exactly one
\* NullValueError, and nothing else, when it is false; the object records no
\* MissingRequiredFieldError for that child.
C12_NullChild ==
    decoded =>
        /\ \A i \in 2..Len(trace) :
              trace[i].val.t = "null" =>
                  nodeErrors(i) = IF trace[i].ce.canBeNull THEN <<>>
                                  ELSE <<NullValueError(trace[i].ce.name)>>
        /\ \A i \in partitioned :
              \A m \in 1..Len(trace[i].val.v) :
                  LET f == trace[i].val.v[m]
                  IN  (/\ f.v.t = "null"
                       /\ f.k \in Range(getChildFieldNames(trace[i].ce))) =>
                          /\ MissingRequiredFieldError(f.k) \notin Range(nodeErrors(i))
                          /\ ~aborted =>
                                [val |-> Null, ce |-> getChild(trace[i].ce, f.k)]
                                    \in Range(passedOn(i))

\* C12 witness: a null value was checked against a required array element with
\* a fixed shape that cannot be null, and a NullValueError was recorded.
C12_Witness ==
    /\ decoded
    /\ \E i \in 2..Len(trace) :
          /\ trace[i].val.t = "null"
          /\ trace[i].ce.kind = "array"
          /\ trace[i].ce.orderedElements # <<>>
          /\ trace[i].ce.isRequired
          /\ ~trace[i].ce.canBeNull
          /\ nodeErrors(i) # <<>>

\* the errors an object records for the children of ce that the object val
\* lacks: one for every required child, in the order the children were added
absentRequired(ce, val) ==
    LET names == getChildFieldNames(ce)
        lacking == selectSeq(names,
                       {n \in Range(names) :
                           getChild(ce, n).isRequired /\ n \notin Range(Fields(val))})
    IN  [k \in 1..Len(lacking) |-> MissingRequiredFieldError(lacking[k])]

\* the children of ce that are not required and that the object val lacks
absentOptional(ce, val) ==
    {n \in Range(getChildFieldNames(ce)) :
        ~getChild(ce, n).isRequired /\ n \notin Range(Fields(val))}

orderedNodes ==
    {i \in 1..Len(trace) :
        /\ trace[i].op = "validateArray" /\ trace[i].val.t = "array"
        /\ trace[i].ce.orderedElements # <<>>}

typedNodes ==
    {i \in 1..Len(trace) :
        /\ trace[i].op = "validateArray" /\ trace[i].val.t = "array"
        /\ trace[i].ce.orderedElements = <<>> /\ trace[i].ce.elements # <<>>}

anyNodes ==
    {i \in 1..Len(trace) :
        /\ trace[i].op = "validateArray" /\ trace[i].val.t = "array"
        /\ trace[i].ce.orderedElements = <<>> /\ trace[i].ce.elements = <<>>}

\* the positions of the entries of an array that are not null
RECURSIVE nonNullFrom(_, _)
nonNullFrom(array, k) ==
    IF k > Len(array.v) THEN <<>>
    ELSE IF array.v[k].t = "null" THEN nonNullFrom(array, k + 1)
         ELSE <<k>> \o nonNullFrom(array, k + 1)

nonNull(array) == nonNullFrom(array, 1)

\* C14: an array checked against a tuple of another length records exactly one
\* InvalidArrayContentsError, nothing else, and none of its entries is
\* validated; an array of the tuple's length has its k-th entry (null entries
\* apart) validated against the k-th ordered element, in order.
C14_OrderedExactness ==
    decoded =>
        \A i \in orderedNodes :
            LET array == trace[i].val
                oe == trace[i].ce.orderedElements
                filled == nonNull(array)
            IN  IF Len(array.v) # Len(oe)
                THEN /\ Len(nodeErrors(i)) = 1
                     /\ nodeErrors(i)[1].type = "InvalidArrayContentsError"
                     /\ kidsOf(i) = <<>>
                ELSE doneOf(passedOn(i),
                            [k \in 1..Len(filled) |->
                                [val |-> array.v[filled[k]], ce |-> oe[filled[k]]]])

\* C14 witness: an array longer than the tuple, whose first entry is not of the
\* first ordered element's kind, was refused.
C14_Witness ==
    /\ decoded
    /\ \E i \in orderedNodes :
          /\ Len(trace[i].val.v) > Len(trace[i].ce.orderedElements)
          /\ trace[i].val.v[1].t # trace[i].ce.orderedElements[1].kind
          /\ nodeErrors(i) # <<>>

\* the tags an array element has a slot for
slots(ce) == {ce.elements[k].tag : k \in 1..Len(ce.elements)}

\* the positions of the entries that are not null and whose tag (string,
\* number, boolean, array or object) has a slot, and of those whose tag has none
configured(array, ce) ==
    selectSeq(nonNull(array), {k \in 1..Len(array.v) : array.v[k].t \in slots(ce)})

unconfigured(array, ce) ==
    selectSeq(nonNull(array), {k \in 1..Len(array.v) : array.v[k].t \notin slots(ce)})

\* C15: with throwOnFirstError=false an array checked against a typed set
\* records one InvalidArrayElementTypeError, naming the tag, for every entry
\* that is not null and has no slot, as many as there are such entries, and
\* hands every entry that is not null and has a slot, those after a refused
\* entry too, to the validation of that slot's element, and no other entry.
C15_TypedSetEntries ==
    (decoded /\ ~throwOnFirstError) =>
        \A i \in typedNodes :
            LET array == trace[i].val
                ce == trace[i].ce
                good == configured(array, ce)
                bad == unconfigured(array, ce)
            IN  /\ ofType(ownErrors(i), "InvalidArrayElementTypeError") =
                      [k \in 1..Len(bad) |->
                          InvalidArrayElementTypeError(array.v[bad[k]].t)]
                /\ passedOn(i) =
                      [k \in 1..Len(good) |->
                          [val |-> array.v[good[k]],
                           ce |-> getElementConfig(ce, array.v[good[k]].t)]]

\* C15 witness: an entry without a slot was refused and a later entry with a
\* slot was validated and recorded an error of its own.
C15_Witness ==
    /\ decoded /\ ~throwOnFirstError
    /\ \E i \in typedNodes :
          /\ \E b \in Range(unconfigured(trace[i].val, trace[i].ce)) :
                \E g \in Range(configured(trace[i].val, trace[i].ce)) : b < g
          /\ \E k \in 1..Len(kidsOf(i)) :
                /\ trace[kidsOf(i)[k]].nerr > trace[i].nerr
                /\ nodeErrors(kidsOf(i)[k]) # <<>>

\* the positions of the entries of an array that are arrays themselves
arraysIn(array) ==
    selectSeq(nonNull(array), {k \in 1..Len(array.v) : array.v[k].t = "array"})

\* C16: in a typed set an entry that is an array goes to the "array" slot and
\* to no other: it is never handed to the element of the "object" slot; with
\* throwOnFirstError=false every such entry is validated against the "array"
\* slot's element when there is one, and records
\* InvalidArrayElementTypeError("array") when there is none.
C16_ArrayTag ==
    decoded =>
        \A i \in typedNodes :
            LET array == trace[i].val
                ce == trace[i].ce
                own == ownErrors(i)
                refused == selectSeq(own, {InvalidArrayElementTypeError("array")})
                taken == selectSeq(passedOn(i),
                             {p \in Range(passedOn(i)) : p.val.t = "array"})
            IN  /\ \A p \in Range(taken) :
                      /\ "array" \in slots(ce)
                      /\ p.ce = getElementConfig(ce, "array")
                /\ ~throwOnFirstError =>
                      IF "array" \in slots(ce)
                      THEN /\ refused = <<>>
                           /\ [k \in 1..Len(taken) |-> taken[k].val] =
                                 [k \in 1..Len(arraysIn(array)) |->
                                     array.v[arraysIn(array)[k]]]
                      ELSE /\ taken = <<>>
                           /\ Len(refused) = Len(arraysIn(array))

\* C16 witness: a typed set with an "object" slot and no "array" slot refused
\* an entry that is an array.
C16_Witness ==
    /\ decoded
    /\ \E i \in typedNodes :
          /\ slots(trace[i].ce) = {"object"}
          /\ arraysIn(trace[i].val) # <<>>
          /\ InvalidArrayElementTypeError("array") \in Range(ownErrors(i))

\* the number of null entries of an array
nulls(array) == Len(array.v) - Len(nonNull(array))

\* C17: an array checked against an element that allows any entry records
\* exactly one NullArrayElementError when null entries are not allowed and it
\* holds at least one, however many, and nothing otherwise; none of its
\* entries, whatever their types, is validated.
C17_AnyModeNull ==
    decoded =>
        \A i \in anyNodes :
            /\ nodeErrors(i) = IF ~trace[i].ce.allowNull /\ nulls(trace[i].val) >= 1
                               THEN <<NullArrayElementError>> ELSE <<>>
            /\ kidsOf(i) = <<>>

\* C17 witness: an array with two null entries was refused once.
C17_Witness ==
    /\ decoded
    /\ \E i \in anyNodes :
          /\ nulls(trace[i].val) = 2
          /\ nonNull(trace[i].val) # <<>>
          /\ nodeErrors(i) = <<NullArrayElementError>>

\* the validateArray calls that went through the entries one by one
entryNodes ==
    typedNodes \cup
    {i \in orderedNodes : Len(trace[i].val.v) = Len(trace[i].ce.orderedElements)}

\* C18: an array checked entry by entry, against a tuple of its length or a
\* typed set, records no NullArrayElementError when null entries are allowed
\* and one for every null entry when they are not (with throwOnFirstError=true
\* the first of them ends the run), whatever canBeNull says on the element of
\* the position or of a slot; a null entry is never handed to the validation
\* of an element.
C18_EntryNull ==
    decoded =>
        \A i \in entryNodes :
            LET found == Len(ofType(ownErrors(i), "NullArrayElementError"))
            IN  /\ \A p \in Range(passedOn(i)) : p.val.t # "null"
                /\ trace[i].ce.allowNull => found = 0
                /\ (~trace[i].ce.allowNull /\ ~throwOnFirstError) =>
                      found = nulls(trace[i].val)
                /\ (~trace[i].ce.allowNull /\ throwOnFirstError) =>
                      found <= 1 /\ found <= nulls(trace[i].val)

\* C18 witness: a tuple that does not allow null entries recorded two errors
\* for two null entries, the first at a position whose element can be null.
C18_Witness ==
    /\ decoded /\ ~throwOnFirstError
    /\ \E i \in entryNodes :
          /\ trace[i].ce.orderedElements # <<>>
          /\ ~trace[i].ce.allowNull
          /\ trace[i].val.v[1].t = "null"
          /\ trace[i].ce.orderedElements[1].canBeNull
          /\ nulls(trace[i].val) = 2
          /\ Len(ofType(ownErrors(i), "NullArrayElementError")) = 2

\* the root element is a primitive element, or the decoded text is not a
\* record for an ObjectElement root or not a sequence for an ArrayElement root
rootMismatch ==
    \/ root.kind \notin {"object", "array"}
    \/ root.kind = "object" /\ JSONparse(text.doc).t # "object"
    \/ root.kind = "array" /\ JSONparse(text.doc).t # "array"

\* C19 (as claimed): on such a root the run records exactly one
\* InvalidRootTypeError and no other error, validates nothing and prunes
\* nothing.
C19_RootCheck ==
    (decoded /\ rootMismatch) =>
        /\ Len(runErrors) = 1
        /\ runErrors[1].type = "InvalidRootTypeError"
        /\ trace = <<>>
        /\ parts = <<>>

\* C20 (as claimed): an element of kind K asked about a string, number,
\* boolean, array or record value answers true exactly when the value is of
\* kind K; an ObjectElement answers false for every array and an ArrayElement
\* false for every record.
C20_IsCorrectType ==
    given # NoTree => (answer <=> given.t = subject.kind)

(***************************************************************************)
(* Vocabulary of the construction properties: done is the list of the      *)
(* calls made on the builder (or on the element subject).                  *)
(***************************************************************************)
ofTypeMethods ==
    {"ofTypeObject", "ofTypeArray", "ofTypeBoolean", "ofTypeNumber", "ofTypeString"}

variantOf(method) ==
    CASE method = "ofTypeObject" -> "object"
      [] method = "ofTypeArray" -> "array"
      [] method = "ofTypeBoolean" -> "boolean"
      [] method = "ofTypeNumber" -> "number"
      [] method = "ofTypeString" -> "string"

\* the ofTypeXyz() calls that returned before call i
fixedBefore(i) ==
    {j \in 1..(i - 1) : done[j].method \in ofTypeMethods /\ done[j].thrown = NoError}

\* the kind the first of them chose, "none" when there is none
kindAt(i) ==
    IF fixedBefore(i) = {} THEN "none"
    ELSE variantOf(done[CHOOSE j \in fixedBefore(i) :
                            \A k \in fixedBefore(i) : j <= k].method)

\* call i threw error and left the receiver as it was
refused(i, error) == done[i].thrown = error /\ done[i].after = done[i].before

\* the same, for an error class whose message varies
refusedAs(i, type) == done[i].thrown.type = type /\ done[i].after = done[i].before

\* C21: once an ofTypeXyz() call has fixed the kind of a builder, every
\* further ofTypeXyz() call throws BuilderElementTypeDeterminedError and
\* leaves the builder unchanged, and build() returns an element of the
\* variant the first ofTypeXyz() call chose.
C21_KindFixedOnce ==
    \A i \in 1..Len(done) :
        kindAt(i) # "none" =>
            /\ done[i].method \in ofTypeMethods =>
                   refused(i, BuilderElementTypeDeterminedError)
            /\ done[i].method = "build" =>
                   /\ done[i].thrown = NoError
                   /\ done[i].returned.kind = kindAt(i)

\* C22: build() before any ofTypeXyz() call has succeeded throws
\* BuilderElementTypeUndeterminedError, whatever was called before; after
\* one it returns the element.
C22_BuildNeedsKind ==
    \A i \in 1..Len(done) :
        done[i].method = "build" =>
            IF kindAt(i) = "none"
            THEN /\ done[i].thrown = BuilderElementTypeUndeterminedError
                 /\ done[i].returned = NoElement
            ELSE /\ done[i].thrown = NoError
                 /\ done[i].returned # NoElement

\* the kind a kind-specific method belongs to
ownerOf(method) ==
    CASE method \in {"withMinLength", "withMaxLength"} -> "string"
      [] method \in {"withMinValue", "withMaxValue"} -> "number"
      [] method = "withChildElements" -> "object"
      [] OTHER -> "any"

\* C23: withMinLength/withMaxLength, withMinValue/withMaxValue and
\* withChildElements throw BuilderMissingOrInvalidOfTypeError when the
\* builder's kind is unset or not theirs, withDefaultValue throws
\* BuilderElementTypeNotPrimitiveError unless the kind is String, Number or
\* Boolean, and a throwing call changes nothing.
C23_KindSpecificMethods ==
    \A i \in 1..Len(done) :
        /\ ownerOf(done[i].method) # "any" /\ kindAt(i) # ownerOf(done[i].method) =>
               refusedAs(i, "BuilderMissingOrInvalidOfTypeError")
        /\ done[i].method = "withDefaultValue"
             /\ kindAt(i) \notin {"string", "number", "boolean"} =>
               refused(i, BuilderElementTypeNotPrimitiveError)

allowMethods ==
    {"allowNumberElements", "allowBooleanElements", "allowStringElements",
     "allowObjectElements", "allowArrayElements"}

\* C24: the typed-set map and the ordered list of an ArrayElement are never
\* both non-empty; allowXyzElements() after a non-empty ordered list was
\* set, and setOrderedElements() after a slot was set, throw
\* InvalidConfigurationElementError and change nothing.
C24_ShapeExclusive ==
    /\ ~(Len(subject.elements) > 0 /\ Len(subject.orderedElements) > 0)
    /\ \A i \in 1..Len(done) :
           \/ done[i].method \in allowMethods
                /\ Len(done[i].before.orderedElements) > 0
           \/ done[i].method = "setOrderedElements"
                /\ Len(done[i].before.elements) > 0
           => refused(i, InvalidConfigurationElementError)

withArrayMethods ==
    {"withNumberArrayElements", "withStringArrayElements", "withBooleanArrayElements",
     "withArrayArrayElements", "withObjectArrayElements"}

\* the slot a withXyzArrayElements method populates
slotOf(method) ==
    CASE method = "withNumberArrayElements" -> "number"
      [] method = "withStringArrayElements" -> "string"
      [] method = "withBooleanArrayElements" -> "boolean"
      [] method = "withArrayArrayElements" -> "array"
      [] method = "withObjectArrayElements" -> "object"

\* what the slot tag of the builder's array element holds: <<>> when unset
slot(b, tag) ==
    IF isValidElementType(b.arrayElement[1], tag)
    THEN <<getElementConfig(b.arrayElement[1], tag)>>
    ELSE <<>>

\* the withXyzArrayElements calls made on an Array builder
slotCalls ==
    {i \in 1..Len(done) : done[i].method \in withArrayMethods
                            /\ done[i].before.arrayElement # <<>>}

\* call i was given an element that is not of the slot's variant
mismatched(i) ==
    done[i].arg # <<>> /\ done[i].arg[1].kind # slotOf(done[i].method)

\* call i returned and its slot holds the element given, or a new one
populated(i) ==
    /\ done[i].thrown = NoError
    /\ slot(done[i].after, slotOf(done[i].method))
         = <<orNew(done[i].arg, ConfigElement(slotOf(done[i].method)))>>

\* C25 as stated: on an Array builder, withXyzArrayElements(ce) with a ce
\* of another variant throws BuilderArrayElementTypeError and leaves the
\* slot as it was; otherwise the slot holds ce, or a new element of the
\* variant when ce is omitted.
C25_ArraySlots ==
    \A i \in slotCalls :
        IF mismatched(i) THEN refusedAs(i, "BuilderArrayElementTypeError")
        ELSE populated(i)

\* C25, amended: the same, except that a call that passes the variant check
\* after a non-empty ordered list was set throws
\* InvalidConfigurationElementError and changes nothing.
C25_ArraySlotsUnlessOrdered ==
    \A i \in slotCalls :
        IF mismatched(i) THEN refusedAs(i, "BuilderArrayElementTypeError")
        ELSE IF Len(done[i].before.arrayElement[1].orderedElements) > 0
             THEN refused(i, InvalidConfigurationElementError)
             ELSE populated(i)

\* C25 witness: an Array builder refused an element of another variant and
\* took a supplied element of the slot's variant.
C25_Witness ==
    /\ \E i \in slotCalls : mismatched(i) /\ done[i].thrown # NoError
    /\ \E i \in slotCalls :
           done[i].arg # <<>> /\ ~mismatched(i) /\ populated(i)

\* C26: when the text does not decode, parse throws the decoder's error as
\* it is (no ConfigParseFailureError), no validation step runs, and the
\* error list is as it was before the call.
C26_DecodeErrorPassesThrough ==
    calls > 0 /\ ~text.ok =>
        /\ outcome = Thrown(SyntaxError)
        /\ trace = <<>>
        /\ parts = <<>>
        /\ document = NoTree
        /\ getErrors = before

\* C26 witness: a text that does not decode was given to a parser whose
\* error list was not empty.
C26_Witness == calls > 0 /\ ~text.ok /\ before # <<>>

\* the error a rejecting validator is to record
ValidatorError == InvalidValueError("validator")

\* the errors the built-in checks of the i-th call recorded
builtIn(i) == selectSeq(ownErrors(i), Range(ownErrors(i)) \ {ValidatorError})

\* the validators of the i-th call's element that return false for its value
rejecting(i) ==
    {k \in 1..Len(getValidators(trace[i].ce)) :
        ~validate_custom(getValidators(trace[i].ce)[k], trace[i].ce, trace[i].val)}

\* C27: the validators of an element run exactly when the node's value is
\* not null and passed the built-in checks, and each one that returns false
\* records one InvalidValueError (the first of them ends a run that throws
\* on the first error); for a null, wrongly typed or out-of-range value
\* none runs, so none records an error.
C27_CustomValidators ==
    \A i \in 1..Len(trace) :
        LET recorded == Len(selectSeq(ownErrors(i), {ValidatorError}))
        IN  IF trace[i].val # Null /\ builtIn(i) = <<>>
            THEN recorded = (IF throwOnFirstError /\ rejecting(i) # {} THEN 1
                             ELSE Cardinality(rejecting(i)))
            ELSE recorded = 0

\* the validation an element of a kind is handed to
opOf(kind) ==
    CASE kind = "object" -> "validateObject"
      [] kind = "array" -> "validateArray"
      [] kind = "boolean" -> "validateBoolean"
      [] kind = "number" -> "validateNumber"
      [] kind = "string" -> "validateString"

\* the declared fields of the object val with their elements, in key order
RECURSIVE declaredFrom(_, _, _)
declaredFrom(ce, val, m) ==
    IF m > Len(val.v) THEN <<>>
    ELSE IF val.v[m].k \in Range(getChildFieldNames(ce))
         THEN <<[val |-> val.v[m].v, ce |-> getChild(ce, val.v[m].k)]>>
                  \o declaredFrom(ce, val, m + 1)
         ELSE declaredFrom(ce, val, m + 1)

\* the calls whose value is not null and not of the kind of their element
mistyped ==
    {i \in 1..Len(trace) :
        trace[i].val.t # "null" /\ trace[i].val.t # trace[i].ce.kind}

\* C28: every value is validated by the validation of its schema element's
\* variant, whatever the value is; every declared field of an object that
\* is partitioned is validated (until an error ends a run that throws on
\* the first error); a value that is not null and not of the element's
\* kind records exactly one InvalidTypeError and nothing else, and no
\* validation of its children or entries takes place.
C28_DispatchOnElement ==
    decoded =>
        /\ \A i \in 1..Len(trace) : trace[i].op = opOf(trace[i].ce.kind)
        /\ \A i \in partitioned :
              doneOf(passedOn(i), declaredFrom(trace[i].ce, trace[i].val, 1))
        /\ \A i \in mistyped :
              /\ nodeErrors(i)
                    = <<InvalidTypeError(TypeOf(trace[i].val), trace[i].ce.kind)>>
              /\ kidsOf(i) = <<>>

\* C28 witness: a declared field that is to be an object held an array that
\* is not empty, and another that is to be a number with a bound held a
\* string.
C28_Witness ==
    /\ decoded
    /\ \E i \in mistyped \ {1} :
          trace[i].ce.kind = "object" /\ trace[i].val.t = "array"
            /\ trace[i].val.v # <<>>
    /\ \E i \in mistyped \ {1} :
          trace[i].ce.kind = "number" /\ trace[i].val.t = "string"
            /\ trace[i].ce.maxValue # <<>>

\* an element and the elements reachable from it
RECURSIVE elementsOf(_)
elementsOf(ce) ==
    {ce} \cup UNION {elementsOf(ce.children[k]) : k \in 1..Len(ce.children)}
         \cup UNION {elementsOf(ce.elements[k].ce) : k \in 1..Len(ce.elements)}
         \cup UNION {elementsOf(ce.orderedElements[k]) :
                         k \in 1..Len(ce.orderedElements)}

RECURSIVE mayLeave(_, _, _)
mayLeave(out, val, ce) ==
    IF val.t = "object" /\ ce.kind = "object"
    THEN /\ out.t = "object"
         /\ Fields(out) = selectSeq(Fields(val), Range(Fields(out)))
         /\ \A m \in 1..Len(val.v) :
               LET f == val.v[m].k
                   declared == f \in Range(getChildFieldNames(ce))
               IN  /\ (declared /\ ~startsWithDollar(f)) => f \in Range(Fields(out))
                   /\ f \in Range(Fields(out)) =>
                          IF declared
                          THEN mayLeave(Get(out, f), val.v[m].v, getChild(ce, f))
                          ELSE Get(out, f) = val.v[m].v
    ELSE IF val.t = "array" /\ ce.kind = "array"
         THEN /\ out.t = "array"
              /\ Len(out.v) = Len(val.v)
              /\ \A k \in 1..Len(val.v) :
                    IF /\ Len(ce.orderedElements) = Len(val.v)
                       /\ val.v[k].t # "null"
                    THEN mayLeave(out.v[k], val.v[k], ce.orderedElements[k])
                    ELSE IF /\ ce.orderedElements = <<>>
                            /\ val.v[k].t # "null"
                            /\ isValidElementType(ce, elemTypeOf(val.v[k]))
                         THEN mayLeave(out.v[k], val.v[k],
                                       getElementConfig(ce, elemTypeOf(val.v[k])))
                         ELSE out.v[k] = val.v[k]
         ELSE out = val

\* C30: when a run ends, by return or by a thrown validation error, the
\* decoded tree differs from what the decoder gave only by keys removed from
\* objects that were validated against an ObjectElement: arrays keep their
\* length and entries, primitive values stay, no declared key without "$"
\* is removed, and the value of an undeclared key that is kept, the entries
\* of an array checked in Any mode and every value that is null or not of
\* its element's kind are as they were; the tree parse returns is that tree.
C30_PruningFrame ==
    decoded =>
        /\ mayLeave(document, JSONparse(text.doc), root)
        /\ outcome.kind = "return" => outcome.tree = document

\* C30 witness: with pruneDollarElements=true a returned object kept an
\* undeclared key whose value is an object with a "$" key and another
\* whose value is an array with such an object.
C30_Witness ==
    /\ decoded
    /\ pruneDollarElements
    /\ outcome.kind = "return"
    /\ outcome.tree.t = "object"
    /\ \E m \in 1..Len(outcome.tree.v) :
          /\ outcome.tree.v[m].k \notin Range(getChildFieldNames(root))
          /\ outcome.tree.v[m].v.t = "object"
          /\ hasDollarKey(outcome.tree.v[m].v)
    /\ \E m \in 1..Len(outcome.tree.v) :
          /\ outcome.tree.v[m].k \notin Range(getChildFieldNames(root))
          /\ outcome.tree.v[m].v.t = "array"
          /\ hasDollarKey(outcome.tree.v[m].v)

====
